---- MODULE Spec2Model ----
(***************************************************************************)
(* Food-log deduplication, bulk logging and nutrition aggregation of the   *)
(* bite-count API (FoodLogController, FoodLogService, foodLogSchema).      *)
(*                                                                         *)
(* Units.  Quantities are counted in hundredths of a serving (0.1 is 10,   *)
(* 2.5 is 250, 100 is 10000), so the comparisons of the code are exact.    *)
(* Timestamps are counted in ticks, DayMs ticks to the day; tz is the      *)
(* offset of the server's local time from UTC, in ticks.                   *)
(***************************************************************************)
EXTENDS Integers, Sequences, FiniteSets, TLC

VARIABLES
  store,    \* the FoodLog collection, in natural (insertion) order
  nextId,   \* the next _id the store assigns; an _id is never reused
  now,      \* the server clock (Date.now())
  tz,       \* local time = UTC + tz
  catalog,  \* the Meal collection: meal id -> nutrition facts
  calls,    \* the requests in flight: process -> its position and locals
  resp      \* the response to the last request answered

vars == <<store, nextId, now, tz, catalog, calls, resp>>

-----------------------------------------------------------------------------
(* Values *)

\* JavaScript's undefined, for a string field and for a number field.
Undefined == "undefined"
Missing == -1
\* An absent notes field; notes are sequences of characters.
NoNotes == <<"undefined">>
\* findOne / findByIdAndUpdate without a match.
Null == [id |-> 0]

ValidMealTypes == {"breakfast", "lunch", "dinner", "snack"}
QtyMin == 10
QtyMax == 10000
MaxBulkItems == 20
NotesMax == 500

\* Bounds of the model.
DayMs == 4
MaxStore == 2
MaxId == 3
MaxTicks == 2
MaxItems == 2
\* The clock of the trends runs over this many years from 1971 and the trends
\* reach back at most this many months.
TrendYears == 3
MaxMonths == 13
\* The clock starts two ticks before the second UTC midnight.
StartNow == 2 * DayMs - 2

-----------------------------------------------------------------------------
(* JavaScript helpers *)

\* x || y on numbers: undefined and 0 are falsy.
NumOr(x, y) == IF x = Missing \/ x = 0 THEN y ELSE x

\* String.prototype.trim on a sequence of characters.
RECURSIVE TrimLeft(_)
TrimLeft(s) ==
  IF s # <<>> /\ Head(s) = " " THEN TrimLeft(Tail(s)) ELSE s

RECURSIVE TrimRight(_)
TrimRight(s) ==
  IF s # <<>> /\ s[Len(s)] = " " THEN TrimRight(SubSeq(s, 1, Len(s) - 1)) ELSE s

Trim(s) == TrimRight(TrimLeft(s))

\* notes?.trim()
TrimOpt(n) == IF n = NoNotes THEN NoNotes ELSE Trim(n)

\* a string is truthy when it is defined and not empty
NotesTruthy(n) == n # NoNotes /\ n # <<>>

\* Mutant: the batch-level notes come first.
NotesOrBatchFirst(a, b) == IF NotesTruthy(TrimOpt(b)) THEN TrimOpt(b) ELSE TrimOpt(a)

\* item.notes?.trim() || data.notes?.trim()
NotesOr(a, b) == IF NotesTruthy(TrimOpt(a)) THEN TrimOpt(a) ELSE TrimOpt(b)

\* date-fns startOfDay(t).getTime() and Date.setHours(0, 0, 0, 0): local midnight.
StartOfDay(t) == ((t + tz) \div DayMs) * DayMs - tz

-----------------------------------------------------------------------------
(* The store *)

Entries(s) == {s[i] : i \in 1..Len(s)}

\* Mutant: the schema's min validator is missing.
QuantityValidNoMin(q) == q # Missing /\ q <= QtyMax

\* Schema validators on a document or on the paths of an update.
QuantityValid(q) == q # Missing /\ q >= QtyMin /\ q <= QtyMax
NotesValid(n) == n = NoNotes \/ Len(n) <= NotesMax
MealTypeValid(mt) == mt \in ValidMealTypes

\* Mutant: the query never includes the meal type.
FindExistingMatchesLenient(s, userId, mealId, logDate, mealType) ==
  {e \in Entries(s) : e.user = userId /\ e.meal = mealId /\ e.logDate = logDate}

\* The entries a query {user, meal, logDate[, mealType]} matches.
FindExistingMatches(s, userId, mealId, logDate, mealType) ==
  {e \in Entries(s) :
     /\ e.user = userId
     /\ e.meal = mealId
     /\ e.logDate = logDate
     /\ (mealType # Undefined => e.mealType = mealType)}

\* FoodLog.findOne(query): one of the matches, or null.
FindExistingFoodLog(s, userId, mealId, logDate, mealType) ==
  IF FindExistingMatches(s, userId, mealId, logDate, mealType) = {}
  THEN {Null}
  ELSE FindExistingMatches(s, userId, mealId, logDate, mealType)

HasId(s, id) == \E i \in 1..Len(s) : s[i].id = id

\* findByIdAndUpdate(id, {$set: upd}): upd is a function on the updated paths.
SetFields(e, upd) ==
  [f \in DOMAIN e |-> IF f \in DOMAIN upd THEN upd[f] ELSE e[f]]

UpdateById(s, id, upd) ==
  [i \in 1..Len(s) |-> IF s[i].id = id THEN SetFields(s[i], upd) ELSE s[i]]

\* findByIdAndDelete(id)
RECURSIVE DeleteById(_, _)
DeleteById(s, id) ==
  IF s = <<>> THEN <<>>
  ELSE IF Head(s).id = id THEN Tail(s)
  ELSE <<Head(s)>> \o DeleteById(Tail(s), id)

\* Mutant: the update validators do not look at the quantity.
UpdateValidNoQuantity(upd) ==
  /\ ("notes" \in DOMAIN upd => NotesValid(upd.notes))
  /\ ("mealType" \in DOMAIN upd => MealTypeValid(upd.mealType))

\* the update validators (runValidators: true) on the paths of upd
UpdateValid(upd) ==
  /\ ("quantity" \in DOMAIN upd => QuantityValid(upd.quantity))
  /\ ("notes" \in DOMAIN upd => NotesValid(upd.notes))
  /\ ("mealType" \in DOMAIN upd => MealTypeValid(upd.mealType))

\* document validation on save() and insertMany()
DocValid(d) ==
  /\ QuantityValid(d.quantity)
  /\ NotesValid(d.notes)
  /\ MealTypeValid(d.mealType)

NewEntry(id, userId, mealId, mealType, quantity, logDate, loggedAt, notes) ==
  [id |-> id, user |-> userId, meal |-> mealId, mealType |-> mealType,
   quantity |-> quantity, logDate |-> logDate, loggedAt |-> loggedAt,
   notes |-> notes]

-----------------------------------------------------------------------------
(* FoodLogService.createFoodLog, in its two store round trips *)

ResolveLogDate(data) == NumOr(data.logDate, StartOfDay(now))

\* Mutant: the merge stores the notes untrimmed.
QuantityUpdateUntrimmed(newQuantity, notes) ==
  IF notes # NoNotes
  THEN [quantity |-> newQuantity, notes |-> notes]
  ELSE [quantity |-> newQuantity]

\* Mutant: the merge writes the notes whether they were supplied or not.
QuantityUpdateAlwaysNotes(newQuantity, notes) ==
  [quantity |-> newQuantity, notes |-> TrimOpt(notes)]

\* updateFoodLogQuantity(logId, newQuantity, notes): the update it sends
QuantityUpdate(newQuantity, notes) ==
  IF notes # NoNotes
  THEN [quantity |-> newQuantity, notes |-> Trim(notes)]
  ELSE [quantity |-> newQuantity]

\* Mutant: the merge adds the new quantity to the stored one.
CreateFoodLogWriteSum(s, id, data, logDate, existing) ==
  IF existing # Null
  THEN <<UpdateById(s, existing.id,
                    [quantity |-> existing.quantity + data.quantity]), "ok">>
  ELSE <<Append(s, NewEntry(id, data.user, data.meal, data.mealType,
                            data.quantity, logDate, NumOr(data.loggedAt, now),
                            TrimOpt(data.notes))), "ok">>

\* Mutant: the write looks the tuple up again (an atomic upsert).
CreateFoodLogWriteUpsert(s, id, data, logDate, existing) ==
  IF FindExistingMatches(s, data.user, data.meal, logDate, data.mealType) # {}
  THEN <<UpdateById(s, (CHOOSE e \in FindExistingMatches(
                                      s, data.user, data.meal, logDate,
                                      data.mealType) : TRUE).id,
                    QuantityUpdate(data.quantity, data.notes)), "ok">>
  ELSE <<Append(s, NewEntry(id, data.user, data.meal, data.mealType,
                            data.quantity, logDate, NumOr(data.loggedAt, now),
                            TrimOpt(data.notes))), "ok">>

\* Mutant: the merge does not check that the update found the entry.
CreateFoodLogWriteUnchecked(s, id, data, logDate, existing) ==
  IF existing # Null
  THEN IF ~UpdateValid(QuantityUpdate(data.quantity, data.notes))
       THEN <<s, "Validation failed">>
       ELSE <<UpdateById(s, existing.id,
                         QuantityUpdate(data.quantity, data.notes)), "ok">>
  ELSE IF ~DocValid(NewEntry(id, data.user, data.meal, data.mealType,
                             data.quantity, logDate,
                             NumOr(data.loggedAt, now), TrimOpt(data.notes)))
       THEN <<s, "validation failed">>
       ELSE <<Append(s, NewEntry(id, data.user, data.meal, data.mealType,
                                 data.quantity, logDate,
                                 NumOr(data.loggedAt, now),
                                 TrimOpt(data.notes))), "ok">>

\* Mutant: the merge is applied only if the entry still has the quantity the
\* lookup saw.
CreateFoodLogWriteIfUnchanged(s, id, data, logDate, existing) ==
  IF existing # Null
  THEN IF \E e \in Entries(s) : e.id = existing.id /\ e.quantity = existing.quantity
       THEN <<UpdateById(s, existing.id,
                         QuantityUpdate(data.quantity, data.notes)), "ok">>
       ELSE <<s, "ok">>
  ELSE <<Append(s, NewEntry(id, data.user, data.meal, data.mealType,
                            data.quantity, logDate, NumOr(data.loggedAt, now),
                            TrimOpt(data.notes))), "ok">>

\* The write of createFoodLog after the lookup returned existing:
\* <<store afterwards, "ok" or the error>>.
CreateFoodLogWrite(s, id, data, logDate, existing) ==
  IF existing # Null
  THEN IF ~UpdateValid(QuantityUpdate(data.quantity, data.notes))
       THEN <<s, "Validation failed">>
       ELSE IF ~HasId(s, existing.id)
       THEN <<s, "Failed to update existing food log">>
       ELSE <<UpdateById(s, existing.id,
                         QuantityUpdate(data.quantity, data.notes)), "ok">>
  ELSE IF ~DocValid(NewEntry(id, data.user, data.meal, data.mealType,
                             data.quantity, logDate,
                             NumOr(data.loggedAt, now), TrimOpt(data.notes)))
       THEN <<s, "validation failed">>
       ELSE <<Append(s, NewEntry(id, data.user, data.meal, data.mealType,
                                 data.quantity, logDate,
                                 NumOr(data.loggedAt, now),
                                 TrimOpt(data.notes))), "ok">>

\* FoodLogController.createFoodLog: the checks before the service is called.
CreateFoodLogAccepted(data) ==
  /\ data.user # Undefined
  /\ data.meal # Undefined
  /\ data.mealType # Undefined
  /\ data.quantity # Missing
  /\ data.mealType \in ValidMealTypes
  /\ ~(data.quantity <= 0 \/ data.quantity > QtyMax)
  /\ ~(NotesTruthy(data.notes) /\ Len(data.notes) > NotesMax)

\* The status the controller answers with for the service's outcome: 400 when
\* the message includes 'validation failed' (a document's validation error;
\* an update validator's message starts 'Validation failed'), else 500.
StatusOf(outcome) ==
  IF outcome = "ok" THEN 201
  ELSE IF outcome = "validation failed" THEN 400
  ELSE 500

\* POST /food-logs run alone: validation, lookup, write.
CreateFoodLog(data) ==
  /\ IF ~CreateFoodLogAccepted(data)
     THEN /\ resp' = [op |-> "createFoodLog", status |-> 400, merged |-> FALSE]
          /\ UNCHANGED <<store, nextId>>
     ELSE \E existing \in FindExistingFoodLog(store, data.user, data.meal,
                                              ResolveLogDate(data), data.mealType) :
            LET w == CreateFoodLogWrite(store, nextId, data,
                                        ResolveLogDate(data), existing)
            IN /\ Len(w[1]) <= MaxStore
               /\ Len(w[1]) > Len(store) => nextId <= MaxId
               /\ store' = w[1]
               /\ nextId' = IF Len(w[1]) > Len(store) THEN nextId + 1 ELSE nextId
               /\ resp' = [op |-> "createFoodLog", status |-> StatusOf(w[2]),
                           merged |-> existing # Null]
  /\ UNCHANGED <<now, tz, catalog, calls>>

-----------------------------------------------------------------------------
(* Nutrition of one log *)

\* Mutant: an undefined fact is multiplied as it is.
ContributionRaw(meal, fact, multiplier) == meal[fact] * multiplier

\* (meal.fact || 0) * multiplier: a fact that is undefined (or 0) counts as 0.
Contribution(meal, fact, multiplier) == NumOr(meal[fact], 0) * multiplier

-----------------------------------------------------------------------------
(* FoodLogService.createBulkFoodLog *)

\* FoodLogController.createBulkFoodLog: the checks before the service is called.
BulkItemAccepted(item) ==
  /\ item.meal # Undefined
  /\ item.quantity # Missing
  /\ ~(item.quantity <= 0 \/ item.quantity > QtyMax)
  /\ ~(NotesTruthy(item.notes) /\ Len(item.notes) > NotesMax)

CreateBulkFoodLogAccepted(data) ==
  /\ data.user # Undefined
  /\ data.mealType # Undefined
  /\ data.mealType \in ValidMealTypes
  /\ Len(data.items) # 0
  /\ ~(Len(data.items) > MaxBulkItems)
  /\ \A i \in 1..Len(data.items) : BulkItemAccepted(data.items[i])
  /\ ~(NotesTruthy(data.notes) /\ Len(data.notes) > NotesMax)

\* Step 1: the one batch lookup.
BulkExistingLogs(s, data, logDate) ==
  {e \in Entries(s) :
     /\ e.user = data.user
     /\ e.meal \in {data.items[i].meal : i \in 1..Len(data.items)}
     /\ e.logDate = logDate
     /\ e.mealType = data.mealType}

\* existingLogsMap: one log per meal id (of several, the one the lookup
\* returned last, and the lookup's order is the store's choice).
ExistingLogsMaps(existingLogs) ==
  {f \in [{e.meal : e \in existingLogs} -> existingLogs] :
     \A m \in DOMAIN f : f[m].meal = m}

\* Step 2: the positions of the items to update and to create.
ItemsToUpdate(data, map) ==
  {i \in 1..Len(data.items) : data.items[i].meal \in DOMAIN map}

ItemsToCreate(data, map) ==
  {i \in 1..Len(data.items) : data.items[i].meal \notin DOMAIN map}

\* The positions of a set in ascending order.
RECURSIVE Ascending(_)
Ascending(S) ==
  IF S = {} THEN <<>>
  ELSE LET m == CHOOSE x \in S : \A y \in S : x <= y
       IN <<m>> \o Ascending(S \ {m})

\* The orders in which the store may apply the concurrently sent updates.
Orders(S) ==
  {p \in [1..Cardinality(S) -> S] : \A i, j \in DOMAIN p : i # j => p[i] # p[j]}

\* Step 3: the update sent for one matched item.
BulkUpdateData(item, data) ==
  IF NotesTruthy(TrimOpt(item.notes)) \/ NotesTruthy(TrimOpt(data.notes))
  THEN [quantity |-> item.quantity, notes |-> NotesOr(item.notes, data.notes)]
  ELSE [quantity |-> item.quantity]

BulkUpdateFails(s, item, data, map) ==
  \/ ~UpdateValid(BulkUpdateData(item, data))
  \/ ~HasId(s, map[item.meal].id)

\* Mutant: the first update that fails aborts the updates after it.
RECURSIVE ApplyBulkUpdatesAbort(_, _, _, _, _)
ApplyBulkUpdatesAbort(s, ord, data, map, down) ==
  IF ord = <<>> THEN s
  ELSE IF Head(ord) \in down \/ BulkUpdateFails(s, data.items[Head(ord)], data, map)
  THEN s
  ELSE ApplyBulkUpdatesAbort(
         UpdateById(s, map[data.items[Head(ord)].meal].id,
                    BulkUpdateData(data.items[Head(ord)], data)),
         Tail(ord), data, map, down)

\* Every update of Promise.all is sent; the ones that do not fail are applied.
\* down holds the positions of the items whose update the store fails.
RECURSIVE ApplyBulkUpdates(_, _, _, _, _)
ApplyBulkUpdates(s, ord, data, map, down) ==
  IF ord = <<>> THEN s
  ELSE ApplyBulkUpdates(
         IF Head(ord) \in down \/ BulkUpdateFails(s, data.items[Head(ord)], data, map)
         THEN s
         ELSE UpdateById(s, map[data.items[Head(ord)].meal].id,
                         BulkUpdateData(data.items[Head(ord)], data)),
         Tail(ord), data, map, down)

\* FoodLog.find({_id: {$in: ids}}): each matching document once.
FindByIds(s, ids) == SelectSeq(s, LAMBDA e : e.id \in ids)

\* Step 4: the documents of insertMany, in item order, with ids from id on.
RECURSIVE NewLogsData(_, _, _, _, _)
NewLogsData(toCreate, id, data, logDate, loggedAt) ==
  IF toCreate = <<>> THEN <<>>
  ELSE <<NewEntry(id, data.user, data.items[Head(toCreate)].meal, data.mealType,
                  data.items[Head(toCreate)].quantity, logDate, loggedAt,
                  NotesOr(data.items[Head(toCreate)].notes, data.notes))>>
       \o NewLogsData(Tail(toCreate), id + 1, data, logDate, loggedAt)

\* Step 5: the totals over the populated logs.
RECURSIVE BulkTotal(_, _, _)
BulkTotal(logs, cat, fact) ==
  IF logs = <<>> THEN 0
  ELSE Contribution(cat[Head(logs).meal], fact, Head(logs).quantity)
       + BulkTotal(Tail(logs), cat, fact)

\* The service run alone on store s with the lookup's map and the order ord of
\* its updates, the store failing the updates of the items at the positions down.
BulkRunWithFailures(s, id, data, cat, map, ord, down) ==
  LET logDate == NumOr(data.logDate, StartOfDay(now))
      loggedAt == NumOr(data.loggedAt, now)
      toUpdate == ItemsToUpdate(data, map)
      toCreate == Ascending(ItemsToCreate(data, map))
      failed == {i \in toUpdate :
                   i \in down \/ BulkUpdateFails(s, data.items[i], data, map)}
      s1 == ApplyBulkUpdates(s, ord, data, map, down)
      updatedLogs == FindByIds(s1, {map[data.items[i].meal].id : i \in toUpdate})
      docs == NewLogsData(toCreate, id, data, logDate, loggedAt)
      s2 == s1 \o docs
      createdLogs == FindByIds(s2, {docs[i].id : i \in 1..Len(docs)})
      allLogs == createdLogs \o updatedLogs
  IN \* Promise.all rejects with the error of the update that fails first, which
     \* names its meal: one of the meals of failed.
     IF failed # {}
     THEN [store |-> s1, outcome |-> "Failed to update food log for meal",
           data |-> [failed |-> {data.items[i].meal : i \in failed}]]
     ELSE IF \E i \in 1..Len(docs) : ~DocValid(docs[i])
     THEN [store |-> s1, outcome |-> "validation failed", data |-> [failed |-> {}]]
     ELSE IF \E i \in 1..Len(allLogs) : allLogs[i].meal \notin DOMAIN cat
     THEN [store |-> s2, outcome |-> "Cannot read properties of null",
           data |-> [failed |-> {}]]
     ELSE [store |-> s2, outcome |-> "ok",
           data |->
             [createdLogs |-> createdLogs, updatedLogs |-> updatedLogs,
              allLogs |-> allLogs,
              totalItems |-> Len(createdLogs) + Len(updatedLogs),
              newItems |-> Len(createdLogs), updatedItems |-> Len(updatedLogs),
              totalCalories |-> BulkTotal(allLogs, cat, "calories"),
              totalProtein |-> BulkTotal(allLogs, cat, "protein"),
              totalFat |-> BulkTotal(allLogs, cat, "fat"),
              totalCarbs |-> BulkTotal(allLogs, cat, "carbs"),
              mealType |-> data.mealType, logDate |-> logDate,
              loggedAt |-> loggedAt]]

\* The service with a store that fails no update.
BulkRun(s, id, data, cat, map, ord) ==
  BulkRunWithFailures(s, id, data, cat, map, ord, {})

\* POST /food-logs/bulk run alone.
CreateBulkFoodLog(data) ==
  /\ IF ~CreateBulkFoodLogAccepted(data)
     THEN /\ resp' = [op |-> "createBulkFoodLog", status |-> 400,
                      data |-> [failed |-> {}]]
          /\ UNCHANGED <<store, nextId>>
     ELSE \E map \in ExistingLogsMaps(
                       BulkExistingLogs(store, data,
                                        NumOr(data.logDate, StartOfDay(now)))) :
          \E ord \in Orders(ItemsToUpdate(data, map)) :
            LET r == BulkRun(store, nextId, data, catalog, map, ord)
            IN /\ Len(r.store) <= MaxStore
               /\ nextId + (Len(r.store) - Len(store)) <= MaxId + 1
               /\ store' = r.store
               /\ nextId' = nextId + (Len(r.store) - Len(store))
               /\ resp' = [op |-> "createBulkFoodLog",
                           status |-> StatusOf(r.outcome), data |-> r.data]
  /\ UNCHANGED <<now, tz, catalog, calls>>

-----------------------------------------------------------------------------
(* PUT and DELETE /food-logs/:id *)

\* FoodLogController.updateFoodLog: the checks before the service is called.
\* data is a function on the fields the request body holds.
UpdateFoodLogAccepted(data) ==
  /\ ("mealType" \in DOMAIN data => data.mealType \in ValidMealTypes)
  /\ ("quantity" \in DOMAIN data =>
        ~(data.quantity <= 0 \/ data.quantity > QtyMax))
  /\ ("notes" \in DOMAIN data =>
        ~(NotesTruthy(data.notes) /\ Len(data.notes) > NotesMax))

\* FoodLogService.updateFoodLog: updateData = {...data} with notes trimmed.
UpdateData(data) ==
  [f \in DOMAIN data |->
     IF f = "notes" /\ NotesTruthy(data[f]) THEN Trim(data[f]) ELSE data[f]]

UpdateFoodLog(id, data) ==
  /\ IF ~UpdateFoodLogAccepted(data)
     THEN /\ resp' = [op |-> "updateFoodLog", status |-> 400]
          /\ store' = store
     ELSE IF ~UpdateValid(UpdateData(data))
     THEN /\ resp' = [op |-> "updateFoodLog", status |-> 500]
          /\ store' = store
     ELSE /\ store' = UpdateById(store, id, UpdateData(data))
          /\ resp' = [op |-> "updateFoodLog",
                      status |-> IF HasId(store, id) THEN 200 ELSE 404]
  /\ UNCHANGED <<nextId, now, tz, catalog, calls>>

\* DELETE /food-logs/:id
DeleteFoodLog(id) ==
  /\ store' = DeleteById(store, id)
  /\ resp' = [op |-> "deleteFoodLog",
              status |-> IF HasId(store, id) THEN 200 ELSE 404]
  /\ UNCHANGED <<nextId, now, tz, catalog, calls>>

\* The clock advances.
Tick ==
  /\ now < StartNow + MaxTicks
  /\ now' = now + 1
  /\ UNCHANGED <<store, nextId, tz, catalog, calls, resp>>

-----------------------------------------------------------------------------
(* foodLogSchema.statics: the daily and the range summary *)

\* new Date(t).toISOString().split('T')[0]: the UTC calendar date of t, as
\* the number of its day.
IsoDate(t) == t \div DayMs

\* new Date(date).getTime(): the UTC midnight of a calendar date.
ParseDate(date) == date * DayMs

ZeroBucket == [calories |-> 0, protein |-> 0, fat |-> 0, carbs |-> 0, items |-> 0]

\* Mutant: the snack bucket is created only when a snack is met.
ZeroSummaryNoSnack(date) ==
  [date |-> date, totalCalories |-> 0, totalProtein |-> 0, totalFat |-> 0,
   totalCarbs |-> 0,
   mealBreakdown |-> [mt \in ValidMealTypes \ {"snack"} |-> ZeroBucket],
   totalItems |-> 0]

ZeroSummary(date) ==
  [date |-> date, totalCalories |-> 0, totalProtein |-> 0, totalFat |-> 0,
   totalCarbs |-> 0,
   mealBreakdown |-> [mt \in ValidMealTypes |-> ZeroBucket],
   totalItems |-> 0]

\* this.find({user, logDate: {$gte, $lte}}), in natural order
FindInWindow(s, userId, startEpoch, endEpoch) ==
  SelectSeq(s, LAMBDA e :
                 e.user = userId /\ e.logDate >= startEpoch /\ e.logDate <= endEpoch)

\* Mutant: a snack is added to the totals and not to its bucket.
AddLogSnackUnbucketed(summary, log, cat) ==
  LET meal == cat[log.meal]
      multiplier == log.quantity
      calories == Contribution(meal, "calories", multiplier)
      protein == Contribution(meal, "protein", multiplier)
      fat == Contribution(meal, "fat", multiplier)
      carbs == Contribution(meal, "carbs", multiplier)
  IN [summary EXCEPT
        !.totalCalories = @ + calories,
        !.totalProtein = @ + protein,
        !.totalFat = @ + fat,
        !.totalCarbs = @ + carbs,
        !.totalItems = @ + 1,
        !.mealBreakdown[log.mealType] =
           IF log.mealType = "snack" THEN @
           ELSE [calories |-> @.calories + calories, protein |-> @.protein + protein,
                 fat |-> @.fat + fat, carbs |-> @.carbs + carbs,
                 items |-> @.items + 1]]

\* The body of logs.forEach: one log added to the totals and to its bucket.
AddLog(summary, log, cat) ==
  LET meal == cat[log.meal]
      multiplier == log.quantity
      calories == Contribution(meal, "calories", multiplier)
      protein == Contribution(meal, "protein", multiplier)
      fat == Contribution(meal, "fat", multiplier)
      carbs == Contribution(meal, "carbs", multiplier)
  IN [summary EXCEPT
        !.totalCalories = @ + calories,
        !.totalProtein = @ + protein,
        !.totalFat = @ + fat,
        !.totalCarbs = @ + carbs,
        !.totalItems = @ + 1,
        !.mealBreakdown[log.mealType] =
           [calories |-> @.calories + calories, protein |-> @.protein + protein,
            fat |-> @.fat + fat, carbs |-> @.carbs + carbs, items |-> @.items + 1]]

RECURSIVE AddLogs(_, _, _)
AddLogs(summary, logs, cat) ==
  IF logs = <<>> THEN summary
  ELSE AddLogs(AddLog(summary, Head(logs), cat), Tail(logs), cat)

\* populate('meal') of a log whose meal is not in the catalog gives null, and
\* reading a fact of null throws.
MealMissing(logs, cat) == \E i \in 1..Len(logs) : logs[i].meal \notin DOMAIN cat

\* Mutant: the day's window reaches the next midnight.
EndOfDayNextMidnight(t) == StartOfDay(t) + DayMs

\* Date.setHours(23, 59, 59, 999): the last tick of the local day.
EndOfDay(t) == StartOfDay(t) + DayMs - 1

\* getDailyNutritionSummary(userId, date)
DailyNutritionSummary(s, cat, userId, date) ==
  AddLogs(ZeroSummary(IsoDate(StartOfDay(date))),
          FindInWindow(s, userId, StartOfDay(date), EndOfDay(date)), cat)

\* GET /food-logs/daily-nutrition/:userId?date=
DailySummary(userId, date) ==
  /\ resp' =
       IF MealMissing(FindInWindow(store, userId, StartOfDay(date), EndOfDay(date)),
                      catalog)
       THEN [op |-> "dailySummary", status |-> 500]
       ELSE [op |-> "dailySummary", status |-> 200,
             data |-> DailyNutritionSummary(store, catalog, userId, date)]
  /\ UNCHANGED <<store, nextId, now, tz, catalog, calls>>

\* dailySummaries[date] of the grouping loop: the summaries in the order
\* their dates were first seen.
RECURSIVE GroupByDate(_, _, _)
GroupByDate(summaries, logs, cat) ==
  IF logs = <<>> THEN summaries
  ELSE LET date == IsoDate(Head(logs).logDate)
           known == \E i \in 1..Len(summaries) : summaries[i].date = date
           opened == IF known THEN summaries
                     ELSE Append(summaries, ZeroSummary(date))
       IN GroupByDate(
            [i \in 1..Len(opened) |->
               IF opened[i].date = date THEN AddLog(opened[i], Head(logs), cat)
               ELSE opened[i]],
            Tail(logs), cat)

\* Mutant: the summaries are returned in the order of the grouping.
Unsorted(summaries) == summaries

\* Array.prototype.sort by new Date(a.date) - new Date(b.date): stable.
RECURSIVE InsertByDate(_, _)
InsertByDate(sorted, x) ==
  IF sorted = <<>> THEN <<x>>
  ELSE IF ParseDate(x.date) - ParseDate(Head(sorted).date) < 0
  THEN <<x>> \o sorted
  ELSE <<Head(sorted)>> \o InsertByDate(Tail(sorted), x)

RECURSIVE SortByDate(_)
SortByDate(summaries) ==
  IF summaries = <<>> THEN <<>>
  ELSE InsertByDate(SortByDate(SubSeq(summaries, 1, Len(summaries) - 1)),
                    summaries[Len(summaries)])

\* Mutant: the window is the two timestamps as they were passed.
NutritionSummaryRangeExact(s, cat, userId, startDate, endDate) ==
  SortByDate(GroupByDate(<<>>, FindInWindow(s, userId, startDate, endDate), cat))

\* getNutritionSummaryRange(userId, startDate, endDate)
NutritionSummaryRange(s, cat, userId, startDate, endDate) ==
  SortByDate(GroupByDate(<<>>,
                         FindInWindow(s, userId, StartOfDay(startDate),
                                      EndOfDay(endDate)), cat))

\* GET /food-logs/nutrition-range/:userId?startDate=&endDate=
RangeSummary(userId, startDate, endDate) ==
  /\ resp' =
       IF MealMissing(FindInWindow(store, userId, StartOfDay(startDate),
                                   EndOfDay(endDate)), catalog)
       THEN [op |-> "rangeSummary", status |-> 500]
       ELSE [op |-> "rangeSummary", status |-> 200,
             data |-> NutritionSummaryRange(store, catalog, userId,
                                            startDate, endDate)]
  /\ UNCHANGED <<store, nextId, now, tz, catalog, calls>>

-----------------------------------------------------------------------------
(* The requests of the sequential specification *)

TzOffsets == {0, 1}

\* The meal catalog: mB has no fat, mC has no carbs.
Catalog ==
  [m \in {"mA", "mB", "mC"} |->
     IF m = "mA" THEN [calories |-> 100, protein |-> 10, fat |-> 5, carbs |-> 20]
     ELSE IF m = "mB" THEN [calories |-> 50, protein |-> 4, fat |-> Missing, carbs |-> 7]
     ELSE [calories |-> 30, protein |-> 2, fat |-> 3, carbs |-> Missing]]

Idle == [p \in {1, 2} |-> [pc |-> "idle"]]

NoResp == [op |-> "none", status |-> 0]

\* A single-item request body.
LogRequest(meal, mealType, quantity, logDate) ==
  [user |-> "u1", meal |-> meal, mealType |-> mealType, quantity |-> quantity,
   logDate |-> logDate, loggedAt |-> Missing, notes |-> NoNotes]

CreateRequests ==
  {LogRequest("mA", "lunch", 100, DayMs), LogRequest("mA", "lunch", 250, DayMs),
   LogRequest("mA", "dinner", 100, DayMs), LogRequest("mB", "lunch", 100, DayMs),
   LogRequest("mA", "lunch", 9, DayMs), LogRequest("mB", "lunch", 250, Missing)}

BulkItem(meal, quantity) == [meal |-> meal, quantity |-> quantity, notes |-> NoNotes]

BulkItems ==
  {BulkItem("mA", 100), BulkItem("mA", 250), BulkItem("mB", 100), BulkItem("mB", 9)}

\* the item lists of 0 to n items
ItemLists(n) == UNION {[1..k -> BulkItems] : k \in 0..n}

BulkRequests ==
  [user : {"u1"}, mealType : {"lunch"}, items : ItemLists(MaxItems),
   logDate : {DayMs}, loggedAt : {Missing}, notes : {NoNotes}]

UpdateRequests ==
  {[quantity |-> 250], [quantity |-> 9], [meal |-> "mB"],
   [mealType |-> "dinner", logDate |-> 2 * DayMs]}

Init ==
  /\ store = <<>>
  /\ nextId = 1
  /\ now = StartNow
  /\ tz \in TzOffsets
  /\ catalog = Catalog
  /\ calls = Idle
  /\ resp = NoResp

Next ==
  \/ \E data \in CreateRequests : CreateFoodLog(data)
  \/ \E data \in BulkRequests : CreateBulkFoodLog(data)
  \/ \E id \in 1..MaxId, data \in UpdateRequests : UpdateFoodLog(id, data)
  \/ \E id \in 1..MaxId : DeleteFoodLog(id)

Spec == Init /\ [][Next]_vars

-----------------------------------------------------------------------------
(* Claims on the sequential specification *)

SameTuple(a, b) ==
  /\ a.user = b.user
  /\ a.meal = b.meal
  /\ a.logDate = b.logDate
  /\ a.mealType = b.mealType

UniqueTuples(s) == \A i, j \in 1..Len(s) : SameTuple(s[i], s[j]) => i = j

\* C1: after any sequence of single-item logs, bulk logs, updates by id and
\* deletes by id, run one after another, the store holds at most one entry
\* for every (user, meal, logDate, mealType) tuple.
C1_AtMostOneEntryPerTuple == UniqueTuples(store)

\* The entries of the tuples a bulk request names.
BulkTupleEntries(s, data, logDate) ==
  {e \in Entries(s) :
     /\ e.user = data.user
     /\ e.mealType = data.mealType
     /\ e.logDate = logDate
     /\ \E i \in 1..Len(data.items) : e.meal = data.items[i].meal}

\* The items of a bulk request that have a matching entry in s.
MatchedItems(s, data, logDate) ==
  {i \in 1..Len(data.items) :
     \E e \in BulkTupleEntries(s, data, logDate) : e.meal = data.items[i].meal}

\* C3: a successful bulk request of n items, k of them with a matching entry,
\* run on a store that satisfies the uniqueness invariant, reports
\* updatedItems = k and newItems = n - k and leaves exactly n entries for the
\* requested tuples, none of them twice; for every item list, repeated meal
\* ids included.
C3_BulkPartition ==
  [][\A data \in BulkRequests :
       (CreateBulkFoodLog(data) /\ resp'.status = 201 /\ UniqueTuples(store)) =>
         LET logDate == NumOr(data.logDate, StartOfDay(now))
             n == Len(data.items)
             k == Cardinality(MatchedItems(store, data, logDate))
         IN /\ resp'.data.updatedItems = k
            /\ resp'.data.newItems = n - k
            /\ Cardinality(BulkTupleEntries(store', data, logDate)) = n
            /\ UniqueTuples(store')]_vars

\* C5: a bulk request with an item whose quantity is outside [0.1, 100] is
\* rejected as a whole and leaves the store as it was.
C5_InvalidBulkLeavesStore ==
  [][\A data \in BulkRequests :
       (/\ CreateBulkFoodLog(data)
        /\ \E i \in 1..Len(data.items) :
             data.items[i].quantity < QtyMin \/ data.items[i].quantity > QtyMax)
       => (resp'.status # 201 /\ store' = store)]_vars

-----------------------------------------------------------------------------
(* Single-item logging alone: calls of createFoodLog one after another *)

SingleRequests ==
  {LogRequest("mA", "lunch", 100, DayMs), LogRequest("mA", "lunch", 250, DayMs),
   LogRequest("mA", "lunch", 9, DayMs), LogRequest("mA", "lunch", 10010, DayMs),
   LogRequest("mA", "dinner", 100, DayMs), LogRequest("mB", "lunch", 100, DayMs),
   LogRequest("mA", "lunch", 100, Missing), LogRequest("mA", "lunch", 250, Missing)}

NextSingle ==
  \/ \E data \in SingleRequests : CreateFoodLog(data)
  \/ Tick

SpecSingle == Init /\ [][NextSingle]_vars

\* The entries of the tuple a single-item request names.
TupleEntries(s, data) ==
  {e \in Entries(s) :
     /\ e.user = data.user
     /\ e.meal = data.meal
     /\ e.logDate = data.logDate
     /\ e.mealType = data.mealType}

\* C2: in a sequence of single-item log calls from the empty store, after
\* every successful call with a supplied logDate the store holds exactly one
\* entry for the call's tuple, with the quantity of that call (replaced, not
\* summed), and no tuple has two entries.
C2_LastQuantityWins ==
  [][\A data \in SingleRequests :
       (CreateFoodLog(data) /\ resp'.status = 201 /\ data.logDate # Missing) =>
         /\ Cardinality(TupleEntries(store', data)) = 1
         /\ \A e \in TupleEntries(store', data) : e.quantity = data.quantity
         /\ UniqueTuples(store')]_vars

\* A second call was merged into the entry of the first and left 2.5 servings.
C2_Witness ==
  /\ resp.op = "createFoodLog"
  /\ resp.status = 201
  /\ resp.merged
  /\ \E e \in Entries(store) :
       e.logDate = DayMs /\ e.quantity = 250 /\ e.loggedAt < now

-----------------------------------------------------------------------------
(* Concurrent requests: createFoodLog suspends at each store round trip *)

Procs == {1, 2}

\* The request passes the controller and the lookup of findExistingFoodLog
\* is answered by the store.
CallLookup(p, data) ==
  /\ calls[p].pc = "idle"
  /\ IF ~CreateFoodLogAccepted(data)
     THEN /\ calls' = [calls EXCEPT ![p] = [pc |-> "done", data |-> data,
                                            existing |-> Null, outcome |-> "rejected"]]
          /\ resp' = [op |-> "createFoodLog", status |-> 400, merged |-> FALSE]
     ELSE /\ \E existing \in FindExistingFoodLog(store, data.user, data.meal,
                                                 ResolveLogDate(data), data.mealType) :
               calls' = [calls EXCEPT ![p] =
                           [pc |-> "write", data |-> data,
                            logDate |-> ResolveLogDate(data), existing |-> existing]]
          /\ resp' = resp
  /\ UNCHANGED <<store, nextId, now, tz, catalog>>

\* The update or the insert the call decided on is applied by the store.
CallWrite(p) ==
  /\ calls[p].pc = "write"
  /\ LET c == calls[p]
         w == CreateFoodLogWrite(store, nextId, c.data, c.logDate, c.existing)
     IN /\ Len(w[1]) <= MaxStore
        /\ Len(w[1]) > Len(store) => nextId <= MaxId
        /\ store' = w[1]
        /\ nextId' = IF Len(w[1]) > Len(store) THEN nextId + 1 ELSE nextId
        /\ calls' = [calls EXCEPT ![p] = [pc |-> "done", data |-> c.data,
                                          existing |-> c.existing, outcome |-> w[2]]]
        /\ resp' = [op |-> "createFoodLog", status |-> StatusOf(w[2]),
                    merged |-> c.existing # Null]
  /\ UNCHANGED <<now, tz, catalog>>

ConcRequests ==
  {LogRequest("mA", "lunch", 100, DayMs), LogRequest("mA", "lunch", 250, DayMs),
   LogRequest("mA", "dinner", 100, DayMs), LogRequest("mB", "lunch", 100, DayMs),
   LogRequest("mA", "lunch", 9, DayMs), LogRequest("mA", "lunch", 100, Missing)}

NextConc ==
  \/ \E p \in Procs, data \in ConcRequests : CallLookup(p, data)
  \/ \E p \in Procs : CallWrite(p)

SpecConc == Init /\ [][NextConc]_vars

\* Both calls are answered, for the same tuple, and both lookups found nothing.
BothInsertedSameTuple ==
  /\ \A p \in Procs : calls[p].pc = "done" /\ calls[p].outcome = "ok"
  /\ \A p \in Procs : calls[p].existing = Null
  /\ calls[1].data.user = calls[2].data.user
  /\ calls[1].data.meal = calls[2].data.meal
  /\ calls[1].data.mealType = calls[2].data.mealType
  /\ calls[1].data.logDate = calls[2].data.logDate

\* C4: two concurrent single-item calls for one tuple whose lookups both
\* return not-found before either insert both insert, and the store ends
\* with two entries for the tuple.
C4_RaceInsertsTwice ==
  BothInsertedSameTuple =>
    /\ Len(store) = 2
    /\ SameTuple(store[1], store[2])
    /\ store[1].meal = calls[1].data.meal
    /\ store[1].mealType = calls[1].data.mealType
    /\ ~UniqueTuples(store)

\* The interleaving lookup, lookup, insert, insert has happened.
C4_Witness ==
  /\ BothInsertedSameTuple
  /\ calls[1].data.logDate = DayMs
  /\ Cardinality(TupleEntries(store, calls[1].data)) = 2

-----------------------------------------------------------------------------
(* Boundary validation: quantities at and around the limits, item counts *)

BoundaryQuantities == {0, 9, QtyMin, QtyMax, 10010}

BoundaryRequests ==
  {LogRequest(m, mt, q, DayMs) :
     m \in {"mA"}, mt \in {"lunch", "dinner"}, q \in BoundaryQuantities}
  \cup {LogRequest("mB", "lunch", 100, DayMs)}

\* Item lists of 0, 1, 2 and 21 items.
BoundaryItemLists ==
  {<<>>, <<BulkItem("mA", 100)>>, <<BulkItem("mA", 250), BulkItem("mB", 100)>>,
   [i \in 1..(MaxBulkItems + 1) |-> BulkItem("mA", 100)],
   [i \in 1..(MaxBulkItems + 2) |-> BulkItem("mB", 100)]}

BoundaryBulkRequests ==
  [user : {"u1"}, mealType : {"lunch"}, items : BoundaryItemLists,
   logDate : {DayMs}, loggedAt : {Missing}, notes : {NoNotes}]

NextValid ==
  \/ \E data \in BoundaryRequests : CreateFoodLog(data)
  \/ \E data \in BoundaryBulkRequests : CreateBulkFoodLog(data)
  \/ \E id \in 1..MaxId : DeleteFoodLog(id)

SpecValid == Init /\ [][NextValid]_vars

\* C6: a single-item request is accepted exactly when 0.1 <= quantity <= 100
\* (on the create and on the merge path), a rejected one leaves the store
\* unchanged, and a bulk request of 0 or of more than 20 items is rejected
\* and leaves the store unchanged.
C6_BoundaryValidation ==
  [][/\ \A data \in BoundaryRequests :
          CreateFoodLog(data) =>
            /\ (resp'.status = 201) <=>
                 (data.quantity >= 10 /\ data.quantity <= 10000)
            /\ (resp'.status # 201 => store' = store)
     /\ \A data \in BoundaryBulkRequests :
          (CreateBulkFoodLog(data)
           /\ (Len(data.items) = 0 \/ Len(data.items) >= 21))
          => (resp'.status = 400 /\ store' = store)]_vars

\* 0.1 and 100 servings were both stored (one on the merge path), and the
\* last request was rejected.
C6_Witness ==
  /\ \E e \in Entries(store) : e.quantity = QtyMin
  /\ \E e \in Entries(store) : e.quantity = QtyMax
  /\ resp.status \in {400, 500}
  /\ nextId = 3

-----------------------------------------------------------------------------
(* The summaries over stores of sample logs *)

SampleLog(id, log) ==
  NewEntry(id, log[1], log[2], log[3], log[4], log[5], log[5], NoNotes)

\* day 2, the last tick of day 2, day 3 and day 7 for a server on UTC
SampleLogs ==
  {<<"u1", "mA", "breakfast", 200, 2 * DayMs>>,
   <<"u1", "mB", "breakfast", 100, 2 * DayMs>>,
   <<"u1", "mB", "snack", 100, 3 * DayMs - 1>>,
   <<"u1", "mC", "snack", 200, 3 * DayMs>>,
   <<"u1", "mA", "lunch", 100, 7 * DayMs>>,
   <<"u1", "mB", "dinner", 200, 7 * DayMs + 1>>,
   <<"u2", "mA", "breakfast", 200, 2 * DayMs>>,
   <<"u2", "mB", "snack", 100, 7 * DayMs>>}

SampleStores ==
  UNION {{[i \in 1..k |-> SampleLog(i, f[i])] : f \in [1..k -> SampleLogs]} :
           k \in 0..MaxStore}

SummaryUsers == {"u1", "u2"}

SummaryDates == {2 * DayMs + 1, 3 * DayMs, 5 * DayMs, 7 * DayMs}

\* a 10-day window, days 2 to 7, days 3 to 6, day 3 alone
SummaryRanges ==
  {<<DayMs, 11 * DayMs - 1>>, <<2 * DayMs + 1, 7 * DayMs>>,
   <<3 * DayMs, 6 * DayMs>>, <<3 * DayMs, 3 * DayMs>>}

SummaryBulkRequests ==
  [user : {"u1"}, mealType : {"snack"},
   items : {<<BulkItem("mB", 100)>>, <<BulkItem("mC", 200)>>,
            <<BulkItem("mA", 200), BulkItem("mB", 100)>>},
   logDate : {3 * DayMs}, loggedAt : {Missing}, notes : {NoNotes}]

InitSummary ==
  /\ store \in SampleStores
  /\ nextId = Len(store) + 1
  /\ now = StartNow
  /\ tz \in TzOffsets
  /\ catalog = Catalog
  /\ calls = Idle
  /\ resp = NoResp

NextSummary ==
  \/ \E u \in SummaryUsers, d \in SummaryDates : DailySummary(u, d)
  \/ \E u \in SummaryUsers, r \in SummaryRanges : RangeSummary(u, r[1], r[2])
  \/ \E data \in SummaryBulkRequests : CreateBulkFoodLog(data)

SpecSummary == InitSummary /\ [][NextSummary]_vars

\* The local calendar day of a timestamp.
LocalDay(t) == (t + tz) \div DayMs

\* The user's entries of the local day of date, and of the days from the
\* day of startDate to the day of endDate.
DayLogs(s, u, date) ==
  {e \in Entries(s) : e.user = u /\ LocalDay(e.logDate) = LocalDay(date)}

RangeLogs(s, u, startDate, endDate) ==
  {e \in Entries(s) :
     /\ e.user = u
     /\ LocalDay(startDate) <= LocalDay(e.logDate)
     /\ LocalDay(e.logDate) <= LocalDay(endDate)}

RECURSIVE SumFn(_, _)
SumFn(f, S) ==
  IF S = {} THEN 0
  ELSE LET x == CHOOSE x \in S : TRUE IN f[x] + SumFn(f, S \ {x})

\* The sum over the logs W of quantity * fact(meal), an undefined fact being 0.
Rollup(W, fact) ==
  SumFn([e \in W |-> IF catalog[e.meal][fact] = Missing THEN 0
                     ELSE e.quantity * catalog[e.meal][fact]], W)

\* C7: dailySummary(user, date) returns for each nutrient the sum of
\* quantity * fact(meal) over exactly the user's entries of the day of date,
\* totalItems their number, and in each meal type's bucket the same sums and
\* count over the entries of that meal type.
C7_DailyRollup ==
  [][\A u \in SummaryUsers, d \in SummaryDates :
       DailySummary(u, d) =>
         LET W == DayLogs(store, u, d)
             sm == resp'.data
         IN /\ resp'.status = 200
            /\ sm.totalCalories = Rollup(W, "calories")
            /\ sm.totalProtein = Rollup(W, "protein")
            /\ sm.totalFat = Rollup(W, "fat")
            /\ sm.totalCarbs = Rollup(W, "carbs")
            /\ sm.totalItems = Cardinality(W)
            /\ \A mt \in ValidMealTypes :
                 LET B == {e \in W : e.mealType = mt}
                 IN /\ sm.mealBreakdown[mt].calories = Rollup(B, "calories")
                    /\ sm.mealBreakdown[mt].protein = Rollup(B, "protein")
                    /\ sm.mealBreakdown[mt].fat = Rollup(B, "fat")
                    /\ sm.mealBreakdown[mt].carbs = Rollup(B, "carbs")
                    /\ sm.mealBreakdown[mt].items = Cardinality(B)]_vars

\* 2 servings at 100 cal and 1 serving at 50 cal: 250 cal in 2 items.
C7_Witness ==
  /\ resp.op = "dailySummary"
  /\ resp.status = 200
  /\ resp.data.totalCalories = 25000
  /\ resp.data.totalItems = 2
  /\ resp.data.mealBreakdown["breakfast"].items = 2
  /\ Len(store) = 2

\* The UTC calendar dates on which the logs W fall.
LogDates(W) == {e.logDate \div DayMs : e \in W}

WithFact(W, fact) == {e \in W : catalog[e.meal][fact] # Missing}

\* A log of a meal without fat or without carbs.
Factless(e) ==
  catalog[e.meal]["fat"] = Missing \/ catalog[e.meal]["carbs"] = Missing

\* Totals in which a log of a meal without the fact counts nothing for the
\* fact and fully for the other facts and for the items.
TolerantTotals(sm, W) ==
  /\ sm.totalFat = SumFn([e \in WithFact(W, "fat") |->
                            e.quantity * catalog[e.meal]["fat"]], WithFact(W, "fat"))
  /\ sm.totalCarbs = SumFn([e \in WithFact(W, "carbs") |->
                              e.quantity * catalog[e.meal]["carbs"]],
                           WithFact(W, "carbs"))
  /\ sm.totalCalories = SumFn([e \in W |-> e.quantity * catalog[e.meal]["calories"]], W)
  /\ sm.totalProtein = SumFn([e \in W |-> e.quantity * catalog[e.meal]["protein"]], W)
  /\ sm.totalItems = Cardinality(W)

\* C9: in dailySummary, rangeSummary and the bulk totals an entry whose meal
\* has no fat (or no carbs) value adds 0 to that nutrient, its full share to
\* the other nutrients and 1 to the item count, and the operation succeeds.
C9_MissingFactTolerance ==
  [][/\ \A u \in SummaryUsers, d \in SummaryDates :
          (resp'.op = "dailySummary" /\ DailySummary(u, d) /\ \E e \in DayLogs(store, u, d) : Factless(e)) =>
            /\ resp'.status = 200
            /\ TolerantTotals(resp'.data, DayLogs(store, u, d))
     /\ \A u \in SummaryUsers, r \in SummaryRanges :
          (resp'.op = "rangeSummary" /\ RangeSummary(u, r[1], r[2])
           /\ \E e \in RangeLogs(store, u, r[1], r[2]) : Factless(e)) =>
            /\ resp'.status = 200
            /\ \A i \in 1..Len(resp'.data) :
                 TolerantTotals(resp'.data[i],
                                {e \in RangeLogs(store, u, r[1], r[2]) :
                                   e.logDate \div DayMs = resp'.data[i].date})
     /\ \A data \in SummaryBulkRequests :
          (resp'.op = "createBulkFoodLog" /\ CreateBulkFoodLog(data)
           /\ \E i \in 1..Len(data.items) :
                Factless([meal |-> data.items[i].meal])) =>
            /\ resp'.status = 201
            /\ TolerantTotals(resp'.data, Entries(resp'.data.allLogs))]_vars

\* A day whose only log is of the meal without fat: fat 0, calories counted.
C9_Witness ==
  /\ resp.op = "dailySummary"
  /\ resp.status = 200
  /\ resp.data.totalItems = 1
  /\ resp.data.totalFat = 0
  /\ resp.data.totalCalories = 5000
  /\ resp.data.totalCarbs = 700

------------------------------------------------------------------------------
(* Date: the calendar of the local time, after ECMAScript's Date *)

Years == 1969..(1971 + TrendYears + 1)

DaysInYear(y) ==
  IF y % 4 # 0 THEN 365
  ELSE IF y % 100 # 0 THEN 366
  ELSE IF y % 400 # 0 THEN 365 ELSE 366

\* The number of the first day of year y, day 0 being 1 January 1970.
DayFromYear(y) ==
  365 * (y - 1970) + ((y - 1969) \div 4) - ((y - 1901) \div 100)
    + ((y - 1601) \div 400)

YearFromDay(day) ==
  CHOOSE y \in Years : DayFromYear(y) <= day /\ day < DayFromYear(y + 1)

\* The days of month m (0 is January) of year y.
DaysInMonth(y, m) ==
  IF m = 1 THEN DaysInYear(y) - 337
  ELSE IF m \in {3, 5, 8, 10} THEN 30 ELSE 31

RECURSIVE DayWithinYearOfMonth(_, _)
DayWithinYearOfMonth(y, m) ==
  IF m = 0 THEN 0 ELSE DayWithinYearOfMonth(y, m - 1) + DaysInMonth(y, m - 1)

\* getMonth() and getDate() of a day.
MonthFromDay(day) ==
  LET y == YearFromDay(day)
      d == day - DayFromYear(y)
  IN CHOOSE m \in 0..11 :
       /\ DayWithinYearOfMonth(y, m) <= d
       /\ d < DayWithinYearOfMonth(y, m) + DaysInMonth(y, m)

DateFromDay(day) ==
  LET y == YearFromDay(day)
  IN day - DayFromYear(y) - DayWithinYearOfMonth(y, MonthFromDay(day)) + 1

\* MakeDay: the month is brought into 0..11 by carrying into the year, and
\* the date is counted on from the first of that month, past its end too.
MakeDay(year, month, date) ==
  LET ym == year + (month \div 12)
      mn == month % 12
  IN DayFromYear(ym) + DayWithinYearOfMonth(ym, mn) + date - 1

\* The local day and the time within it.

TimeWithinDay(t) == (t + tz) % DayMs

\* d.setMonth(d.getMonth() - months) for the date d of time t.
SetMonthBack(t, months) ==
  LET day == LocalDay(t)
  IN MakeDay(YearFromDay(day), MonthFromDay(day) - months, DateFromDay(day))
       * DayMs + TimeWithinDay(t) - tz

------------------------------------------------------------------------------
(* FoodLogService: the weekly and the monthly trend *)

WeeklyTrendStart(t, weeks) == t - weeks * 7 * DayMs

MonthlyTrendStart(t, months) == SetMonthBack(t, months)

\* The summaries of the range, or the failure of the service.
TrendResponse(op, userId, startDate, endDate) ==
  IF MealMissing(FindInWindow(store, userId, StartOfDay(startDate),
                              EndOfDay(endDate)), catalog)
  THEN [op |-> op, status |-> 500]
  ELSE [op |-> op, status |-> 200,
        data |-> NutritionSummaryRange(store, catalog, userId, startDate, endDate)]

GetWeeklyNutritionTrend(userId, weeks) ==
  /\ resp' = TrendResponse("weeklyTrend", userId, WeeklyTrendStart(now, weeks), now)
  /\ UNCHANGED <<store, nextId, now, tz, catalog, calls>>

GetMonthlyNutritionTrend(userId, months) ==
  /\ resp' = TrendResponse("monthlyTrend", userId,
                           MonthlyTrendStart(now, months), now)
  /\ UNCHANGED <<store, nextId, now, tz, catalog, calls>>

------------------------------------------------------------------------------
(* The trends on every day of the years of the clock *)

TrendDays == DayFromYear(1971)..(DayFromYear(1971 + TrendYears) - 1)

\* Logs on 29 February, 1 March and 15 March 1972.
TrendLogs ==
  <<SampleLog(1, <<"u1", "mA", "lunch", 100, MakeDay(1972, 1, 29) * DayMs>>),
    SampleLog(2, <<"u1", "mB", "lunch", 100, MakeDay(1972, 2, 1) * DayMs>>),
    SampleLog(3, <<"u1", "mA", "dinner", 200, MakeDay(1972, 2, 15) * DayMs>>)>>

TrendMonths == {1, 2, 6, 12, MaxMonths}

TrendWeeks == {1, 4}

InitTrend ==
  /\ store = TrendLogs
  /\ nextId = Len(store) + 1
  /\ now \in {d * DayMs + h : d \in TrendDays, h \in {0, DayMs - 1}}
  /\ tz \in TzOffsets
  /\ catalog = Catalog
  /\ calls = Idle
  /\ resp = NoResp

NextTrend ==
  \/ \E months \in TrendMonths : GetMonthlyNutritionTrend("u1", months)
  \/ \E weeks \in TrendWeeks : GetWeeklyNutritionTrend("u1", weeks)

SpecTrend == InitTrend /\ [][NextTrend]_vars

\* The months from January 1970 to the month of the local day of t.
MonthIndex(t) ==
  12 * (YearFromDay(LocalDay(t)) - 1970) + MonthFromDay(LocalDay(t))

\* C10: on every day of every month and for every N the window of
\* monthlyTrend(user, N) starts in the calendar month exactly N months before
\* the month of now, on the same day of the month as now.
C10_StartInMonthNBefore ==
  [][\A months \in TrendMonths :
       (resp'.op = "monthlyTrend" /\ GetMonthlyNutritionTrend("u1", months)) =>
         LET start == MonthlyTrendStart(now, months)
         IN /\ MonthIndex(start) = MonthIndex(now) - months
            /\ DateFromDay(LocalDay(start)) = DateFromDay(LocalDay(now))]_vars

------------------------------------------------------------------------------
(* Requests that name a meal the catalog does not hold *)

\* mX is not a meal of the catalog.
MealRequests ==
  {LogRequest("mX", "lunch", 100, DayMs), LogRequest("mX", "lunch", 250, DayMs),
   LogRequest("mA", "lunch", 100, DayMs), LogRequest("mA", "dinner", 250, DayMs)}

MealItemLists ==
  {<<BulkItem("mX", 100)>>, <<BulkItem("mA", 250), BulkItem("mX", 100)>>,
   <<BulkItem("mA", 100)>>, <<BulkItem("mB", 100), BulkItem("mA", 250)>>}

MealBulkRequests ==
  [user : {"u1"}, mealType : {"lunch"}, items : MealItemLists,
   logDate : {DayMs}, loggedAt : {Missing}, notes : {NoNotes}]

NextMeal ==
  \/ \E data \in MealRequests : CreateFoodLog(data)
  \/ \E data \in MealBulkRequests : CreateBulkFoodLog(data)
  \/ \E id \in 1..MaxId : DeleteFoodLog(id)

SpecMeal == Init /\ [][NextMeal]_vars

\* C11: a single-item or bulk request that names a meal the catalog does not
\* hold is rejected, and the store is left as it was (no entry of the meal,
\* and for bulk no entry of the batch, is written or updated).
C11_UnknownMealRejected ==
  [][/\ \A data \in MealRequests :
          (resp'.op = "createFoodLog" /\ CreateFoodLog(data)
           /\ data.meal \notin DOMAIN catalog)
          => (resp'.status # 201 /\ store' = store)
     /\ \A data \in MealBulkRequests :
          (resp'.op = "createBulkFoodLog" /\ CreateBulkFoodLog(data)
           /\ \E i \in 1..Len(data.items) : data.items[i].meal \notin DOMAIN catalog)
          => (resp'.status # 201 /\ store' = store)]_vars

------------------------------------------------------------------------------
(* Requests whose logDate values are different times of one calendar day *)

\* DayMs and DayMs + 1 are two times of day 1, in UTC and in local time.
DayLogDates == {DayMs, DayMs + 1}

DayRequests ==
  {LogRequest(m, "lunch", q, d) :
     m \in {"mA", "mB"}, q \in {100, 250}, d \in DayLogDates}

DayBulkRequests ==
  [user : {"u1"}, mealType : {"lunch"},
   items : {<<BulkItem("mA", 100)>>, <<BulkItem("mA", 250), BulkItem("mB", 100)>>},
   logDate : DayLogDates, loggedAt : {Missing}, notes : {NoNotes}]

NextDay ==
  \/ \E data \in DayRequests : CreateFoodLog(data)
  \/ \E data \in DayBulkRequests : CreateBulkFoodLog(data)

SpecDay == Init /\ [][NextDay]_vars

SameDayTuple(a, b) ==
  /\ a.user = b.user
  /\ a.meal = b.meal
  /\ a.mealType = b.mealType
  /\ LocalDay(a.logDate) = LocalDay(b.logDate)
  /\ IsoDate(a.logDate) = IsoDate(b.logDate)

\* C12: after sequential single-item and bulk calls whose logDate values are
\* timestamps of one calendar day, the store holds exactly one entry for
\* every user, meal, calendar day and meal type: a call for the same day
\* merges into the entry of an earlier call.
C12_OneEntryPerCalendarDay ==
  \A i, j \in 1..Len(store) : SameDayTuple(store[i], store[j]) => i = j

------------------------------------------------------------------------------
(* The response of a successful bulk call *)

\* The entry of store s with the id of log.
StoredLog(s, log) == CHOOSE e \in Entries(s) : e.id = log.id

\* The fact of a meal, an undefined one counting 0.
FactOf(cat, m, fact) == IF cat[m][fact] = Missing THEN 0 ELSE cat[m][fact]

\* The sum over logs of stored quantity * fact.
StoredTotal(s, cat, logs, fact) ==
  SumFn([i \in 1..Len(logs) |->
           StoredLog(s, logs[i]).quantity * FactOf(cat, logs[i].meal, fact)],
        1..Len(logs))

\* The totals and the lists of a bulk response d agree with the store s.
BulkTotalsExact(d, s, cat) ==
  /\ \A i \in 1..Len(d.allLogs) : d.allLogs[i] \in Entries(s)
  /\ d.totalCalories = StoredTotal(s, cat, d.allLogs, "calories")
  /\ d.totalProtein = StoredTotal(s, cat, d.allLogs, "protein")
  /\ d.totalFat = StoredTotal(s, cat, d.allLogs, "fat")
  /\ d.totalCarbs = StoredTotal(s, cat, d.allLogs, "carbs")

BulkListsDisjoint(d) ==
  /\ d.allLogs = d.createdLogs \o d.updatedLogs
  /\ \A i, j \in 1..Len(d.allLogs) : d.allLogs[i].id = d.allLogs[j].id => i = j

BulkCountsAgree(d) ==
  /\ d.totalItems = d.newItems + d.updatedItems
  /\ d.totalItems = Len(d.allLogs)
  /\ d.newItems = Len(d.createdLogs)
  /\ d.updatedItems = Len(d.updatedLogs)

\* C13: for every successful bulk call the four totals are the sums over
\* allLogs of stored quantity * fact, allLogs is createdLogs followed by
\* updatedLogs without an entry in both, and totalItems = newItems +
\* updatedItems = |allLogs| = the number of items submitted.
C13_BulkResponseExact ==
  [][\A data \in BulkRequests :
       (resp'.op = "createBulkFoodLog" /\ CreateBulkFoodLog(data)
        /\ resp'.status = 201) =>
         /\ BulkTotalsExact(resp'.data, store', catalog)
         /\ BulkListsDisjoint(resp'.data)
         /\ BulkCountsAgree(resp'.data)
         /\ resp'.data.totalItems = Len(data.items)]_vars

------------------------------------------------------------------------------
(* Single-item logging with notes, a request repeated *)

NotesRequests ==
  {[LogRequest("mA", "lunch", q, d) EXCEPT !.notes = n] :
     q \in {100, 250}, d \in {DayMs}, n \in {NoNotes, <<>>, <<" ", "a">>, <<"b", " ">>}}
  \cup {LogRequest("mA", "lunch", 9, DayMs), LogRequest("mB", "lunch", 100, DayMs)}

NextTwice ==
  \/ \E data \in NotesRequests : CreateFoodLog(data)
  \/ Tick

SpecTwice == Init /\ [][NextTwice]_vars

\* The stores a createFoodLog call for data can leave when it runs on store s.
AfterCreateFoodLog(s, id, data) ==
  IF ~CreateFoodLogAccepted(data) THEN {s}
  ELSE {CreateFoodLogWrite(s, id, data, ResolveLogDate(data), existing)[1] :
          existing \in FindExistingFoodLog(s, data.user, data.meal,
                                           ResolveLogDate(data), data.mealType)}

\* C14: a createFoodLog request executed a second time right after the first
\* leaves the store as the first left it: the same number of entries and the
\* same quantity and notes for the tuple; the quantities are not added.
C14_RepeatedLogIdempotent ==
  [][\A data \in NotesRequests :
       (resp'.op = "createFoodLog" /\ CreateFoodLog(data)) =>
         /\ store' \in AfterCreateFoodLog(store, nextId, data)
         /\ \A again \in AfterCreateFoodLog(store', nextId', data) :
              /\ again = store'
              /\ Len(again) = Len(store')
              /\ \A e \in TupleEntries(again, data) :
                   resp'.status = 201 =>
                     /\ e.quantity = data.quantity
                     /\ data.notes # NoNotes => e.notes = Trim(data.notes)]_vars

\* A call with notes " a" was merged into an entry and left 2.5 servings with
\* the notes "a" in a store of one entry.
C14_Witness ==
  /\ resp.op = "createFoodLog"
  /\ resp.status = 201
  /\ resp.merged
  /\ Len(store) = 1
  /\ store[1].quantity = 250
  /\ store[1].notes = <<"a">>

------------------------------------------------------------------------------
(* The buckets of the summaries *)

IsZeroBucket(b) ==
  /\ DOMAIN b = {"calories", "protein", "fat", "carbs", "items"}
  /\ b.calories = 0 /\ b.protein = 0 /\ b.fat = 0 /\ b.carbs = 0 /\ b.items = 0

\* Summary sm of the logs W has the four buckets, and the bucket of a meal
\* type without a log in W is zero.
FourBuckets(sm, W) ==
  /\ DOMAIN sm.mealBreakdown = {"breakfast", "lunch", "dinner", "snack"}
  /\ \A mt \in DOMAIN sm.mealBreakdown :
       /\ DOMAIN sm.mealBreakdown[mt] = {"calories", "protein", "fat", "carbs", "items"}
       /\ (\A e \in W : e.mealType # mt) => IsZeroBucket(sm.mealBreakdown[mt])

\* C15: every summary of dailySummary and of rangeSummary has the four
\* meal-type buckets, a bucket without an entry of its meal type on that day
\* is all zero, and dailySummary of a day without entries answers with an
\* all-zero summary, not with an error.
C15_FourZeroFilledBuckets ==
  [][/\ \A u \in SummaryUsers, d \in SummaryDates :
          (resp'.op = "dailySummary" /\ DailySummary(u, d)) =>
            /\ resp'.status = 200
            /\ FourBuckets(resp'.data, DayLogs(store, u, d))
            /\ DayLogs(store, u, d) = {} =>
                 /\ resp'.data.totalCalories = 0 /\ resp'.data.totalProtein = 0
                 /\ resp'.data.totalFat = 0 /\ resp'.data.totalCarbs = 0
                 /\ resp'.data.totalItems = 0
                 /\ \A mt \in ValidMealTypes :
                      IsZeroBucket(resp'.data.mealBreakdown[mt])
     /\ \A u \in SummaryUsers, r \in SummaryRanges :
          (resp'.op = "rangeSummary" /\ RangeSummary(u, r[1], r[2])) =>
            /\ resp'.status = 200
            /\ \A i \in 1..Len(resp'.data) :
                 FourBuckets(resp'.data[i],
                             {e \in RangeLogs(store, u, r[1], r[2]) :
                                e.logDate \div DayMs = resp'.data[i].date})]_vars

\* dailySummary of day 5, which has no entry, on a store of two entries.
C15_Witness ==
  /\ resp.op = "dailySummary"
  /\ resp.status = 200
  /\ resp.data.totalItems = 0
  /\ resp.data.totalCalories = 0
  /\ \A mt \in ValidMealTypes : IsZeroBucket(resp.data.mealBreakdown[mt])
  /\ Len(store) = 2
  /\ \A i \in 1..2 : store[i].user = "u1"

------------------------------------------------------------------------------
(* The log calls on a store whose calls may fail *)

\* findExistingFoodLog when the store may fail the query: the catch block
\* answers null.
FindExistingOrError(s, userId, mealId, logDate, mealType, lookupFails) ==
  IF lookupFails THEN {Null}
  ELSE FindExistingFoodLog(s, userId, mealId, logDate, mealType)

\* The write of createFoodLog when the store may fail it: findByIdAndUpdate
\* and save() reject, and the service throws.
CreateFoodLogWriteOrError(s, id, data, logDate, existing, writeFails) ==
  IF writeFails THEN <<s, "store error">>
  ELSE CreateFoodLogWrite(s, id, data, logDate, existing)

\* POST /food-logs run alone on a store that fails the lookup, the write, both
\* or neither.
CreateFoodLogWithFailures(data, lookupFails, writeFails) ==
  /\ IF ~CreateFoodLogAccepted(data)
     THEN /\ resp' = [op |-> "createFoodLog", status |-> 400, merged |-> FALSE]
          /\ UNCHANGED <<store, nextId>>
     ELSE \E existing \in FindExistingOrError(store, data.user, data.meal,
                                              ResolveLogDate(data), data.mealType,
                                              lookupFails) :
            LET w == CreateFoodLogWriteOrError(store, nextId, data,
                                               ResolveLogDate(data), existing,
                                               writeFails)
            IN /\ Len(w[1]) <= MaxStore
               /\ Len(w[1]) > Len(store) => nextId <= MaxId
               /\ store' = w[1]
               /\ nextId' = IF Len(w[1]) > Len(store) THEN nextId + 1 ELSE nextId
               /\ resp' = [op |-> "createFoodLog", status |-> StatusOf(w[2]),
                           merged |-> existing # Null]
  /\ UNCHANGED <<now, tz, catalog, calls>>

\* POST /food-logs/bulk run alone on a store that fails the updates of the
\* matched items at the positions down.
CreateBulkFoodLogWithFailures(data, down) ==
  /\ IF ~CreateBulkFoodLogAccepted(data)
     THEN /\ resp' = [op |-> "createBulkFoodLog", status |-> 400,
                      data |-> [failed |-> {}]]
          /\ UNCHANGED <<store, nextId>>
     ELSE \E map \in ExistingLogsMaps(
                       BulkExistingLogs(store, data,
                                        NumOr(data.logDate, StartOfDay(now)))) :
          \E ord \in Orders(ItemsToUpdate(data, map)) :
            LET r == BulkRunWithFailures(store, nextId, data, catalog, map, ord, down)
            IN /\ down \subseteq ItemsToUpdate(data, map)
               /\ Len(r.store) <= MaxStore
               /\ nextId + (Len(r.store) - Len(store)) <= MaxId + 1
               /\ store' = r.store
               /\ nextId' = nextId + (Len(r.store) - Len(store))
               /\ resp' = [op |-> "createBulkFoodLog",
                           status |-> StatusOf(r.outcome), data |-> r.data]
  /\ UNCHANGED <<now, tz, catalog, calls>>

FaultRequests ==
  {LogRequest("mA", "lunch", 100, DayMs), LogRequest("mA", "lunch", 250, DayMs),
   LogRequest("mB", "lunch", 100, DayMs), LogRequest("mA", "lunch", 9, DayMs)}

FaultItemLists ==
  {<<BulkItem("mA", 250), BulkItem("mB", 250)>>,
   <<BulkItem("mB", 300), BulkItem("mA", 300)>>,
   <<BulkItem("mA", 100), BulkItem("mB", 9)>>}

FaultBulkRequests ==
  [user : {"u1"}, mealType : {"lunch"}, items : FaultItemLists,
   logDate : {DayMs}, loggedAt : {Missing}, notes : {NoNotes}]

NextFault ==
  \/ \E data \in FaultRequests, lookupFails \in BOOLEAN, writeFails \in BOOLEAN :
       CreateFoodLogWithFailures(data, lookupFails, writeFails)
  \/ \E data \in FaultBulkRequests, down \in SUBSET (1..MaxItems) :
       CreateBulkFoodLogWithFailures(data, down)

SpecFault == Init /\ [][NextFault]_vars

\* C16: a single-item call whose existence lookup fails with a store error
\* ends with an error and inserts and updates nothing, and a call whose
\* update on the merge path fails ends with an error and leaves the entry as
\* it was.
C16_LookupFailureSurfaces ==
  [][\A data \in FaultRequests, lookupFails \in BOOLEAN, writeFails \in BOOLEAN :
       (/\ resp'.op = "createFoodLog"
        /\ CreateFoodLogWithFailures(data, lookupFails, writeFails)
        /\ CreateFoodLogAccepted(data)
        /\ (lookupFails \/ (writeFails /\ resp'.merged)))
       => (resp'.status # 201 /\ store' = store)]_vars

\* The entries of the tuple of item i of a bulk request.
ItemEntries(s, data, logDate, i) ==
  {e \in BulkTupleEntries(s, data, logDate) : e.meal = data.items[i].meal}

\* The matched items of a bulk request whose update fails: the store fails it
\* or the update validators reject it.
FailingItems(s, data, logDate, down) ==
  {i \in MatchedItems(s, data, logDate) :
     i \in down \/ ~UpdateValid(BulkUpdateData(data.items[i], data))}

\* C17: when the update of a matched item of a bulk call fails, the updates
\* of the other matched items of the batch still take effect, the entry of
\* the failing item stays as it was, and the call ends with an error that
\* names the meal of the failing item.
C17_SiblingUpdatesSurvive ==
  [][\A data \in FaultBulkRequests, down \in SUBSET (1..MaxItems) :
       LET logDate == NumOr(data.logDate, StartOfDay(now))
           matched == MatchedItems(store, data, logDate)
           failing == FailingItems(store, data, logDate, down)
       IN (/\ resp'.op = "createBulkFoodLog"
           /\ UniqueTuples(store)
           /\ down \subseteq matched
           /\ failing # {}
           /\ CreateBulkFoodLogWithFailures(data, down))
          => /\ resp'.status = 500
             /\ resp'.data.failed = {data.items[i].meal : i \in failing}
             /\ \A i \in matched \ failing :
                  \A e \in ItemEntries(store', data, logDate, i) :
                    e.quantity = data.items[i].quantity
             /\ \A i \in failing :
                  ItemEntries(store', data, logDate, i)
                    = ItemEntries(store, data, logDate, i)
             /\ Len(store') = Len(store)]_vars

\* The bulk call of 3 servings of mB and of mA ended with an error for mB
\* and left mA at 3 servings and mB as it was.
C17_Witness ==
  /\ resp.op = "createBulkFoodLog"
  /\ resp.status = 500
  /\ resp.data.failed = {"mB"}
  /\ Len(store) = 2
  /\ \E e \in Entries(store) : e.meal = "mA" /\ e.quantity = 300
  /\ \E e \in Entries(store) : e.meal = "mB" /\ e.quantity # 300

------------------------------------------------------------------------------
(* Concurrent bulk calls: createBulkFoodLog suspends at each store round trip *)

\* Step 1: the request passes the controller and the batch lookup is answered;
\* the call keeps the map and partitions the items by it.
BulkCallLookup(p, data) ==
  /\ calls[p].pc = "idle"
  /\ IF ~CreateBulkFoodLogAccepted(data)
     THEN /\ calls' = [calls EXCEPT ![p] = [pc |-> "done", data |-> data,
                                            map |-> <<>>, outcome |-> "rejected"]]
          /\ resp' = [op |-> "createBulkFoodLog", status |-> 400,
                      data |-> [failed |-> {}]]
     ELSE /\ \E map \in ExistingLogsMaps(
                          BulkExistingLogs(store, data,
                                           NumOr(data.logDate, StartOfDay(now)))) :
               calls' = [calls EXCEPT ![p] =
                           [pc |-> "bulkUpdate", data |-> data, map |-> map,
                            logDate |-> NumOr(data.logDate, StartOfDay(now)),
                            loggedAt |-> NumOr(data.loggedAt, now)]]
          /\ resp' = resp
  /\ UNCHANGED <<store, nextId, now, tz, catalog>>

\* Step 3: the updates of the matched items and the read of the updated logs.
BulkCallUpdate(p) ==
  /\ calls[p].pc = "bulkUpdate"
  /\ LET c == calls[p]
         toUpdate == ItemsToUpdate(c.data, c.map)
     IN \E ord \in Orders(toUpdate) :
          LET failed == {i \in toUpdate :
                           BulkUpdateFails(store, c.data.items[i], c.data, c.map)}
              s1 == ApplyBulkUpdates(store, ord, c.data, c.map, {})
          IN /\ store' = s1
             /\ IF failed # {}
                THEN /\ calls' = [calls EXCEPT ![p] =
                                    [pc |-> "done", data |-> c.data, map |-> c.map,
                                     outcome |-> "Failed to update food log for meal"]]
                     /\ resp' = [op |-> "createBulkFoodLog", status |-> 500,
                                 data |-> [failed |-> {c.data.items[i].meal :
                                                         i \in failed}]]
                ELSE /\ calls' = [calls EXCEPT ![p] =
                                    [pc |-> "bulkInsert", data |-> c.data,
                                     map |-> c.map, logDate |-> c.logDate,
                                     loggedAt |-> c.loggedAt,
                                     updatedLogs |->
                                       FindByIds(s1, {c.map[c.data.items[i].meal].id :
                                                        i \in toUpdate})]]
                     /\ resp' = resp
  /\ UNCHANGED <<nextId, now, tz, catalog>>

\* Steps 4 and 5 for the items at the positions toCreate: the insert, the
\* read of the created logs, the totals and the response.
BulkInsertOf(s, id, c, cat, toCreate) ==
  LET docs == NewLogsData(Ascending(toCreate), id, c.data, c.logDate, c.loggedAt)
      s2 == s \o docs
      createdLogs == FindByIds(s2, {docs[i].id : i \in 1..Len(docs)})
      allLogs == createdLogs \o c.updatedLogs
  IN IF \E i \in 1..Len(docs) : ~DocValid(docs[i])
     THEN [store |-> s, outcome |-> "validation failed", data |-> [failed |-> {}]]
     ELSE IF \E i \in 1..Len(allLogs) : allLogs[i].meal \notin DOMAIN cat
     THEN [store |-> s2, outcome |-> "Cannot read properties of null",
           data |-> [failed |-> {}]]
     ELSE [store |-> s2, outcome |-> "ok",
           data |->
             [createdLogs |-> createdLogs, updatedLogs |-> c.updatedLogs,
              allLogs |-> allLogs,
              totalItems |-> Len(createdLogs) + Len(c.updatedLogs),
              newItems |-> Len(createdLogs), updatedItems |-> Len(c.updatedLogs),
              totalCalories |-> BulkTotal(allLogs, cat, "calories"),
              totalProtein |-> BulkTotal(allLogs, cat, "protein"),
              totalFat |-> BulkTotal(allLogs, cat, "fat"),
              totalCarbs |-> BulkTotal(allLogs, cat, "carbs"),
              mealType |-> c.data.mealType, logDate |-> c.logDate,
              loggedAt |-> c.loggedAt]]

\* Mutant: the insert leaves out the items that have an entry by now.
BulkInsertRechecked(s, id, c, cat) ==
  BulkInsertOf(s, id, c, cat,
               {i \in ItemsToCreate(c.data, c.map) :
                  \A e \in BulkExistingLogs(s, c.data, c.logDate) :
                    e.meal # c.data.items[i].meal})

\* The insert of the items the lookup found no entry for.
BulkInsert(s, id, c, cat) ==
  BulkInsertOf(s, id, c, cat, ItemsToCreate(c.data, c.map))

BulkCallInsert(p) ==
  /\ calls[p].pc = "bulkInsert"
  /\ LET r == BulkInsert(store, nextId, calls[p], catalog)
     IN /\ Len(r.store) <= MaxStore
        /\ nextId + (Len(r.store) - Len(store)) <= MaxId + 1
        /\ store' = r.store
        /\ nextId' = nextId + (Len(r.store) - Len(store))
        /\ calls' = [calls EXCEPT ![p] = [pc |-> "done", data |-> calls[p].data,
                                          map |-> calls[p].map,
                                          outcome |-> r.outcome]]
        /\ resp' = [op |-> "createBulkFoodLog", status |-> StatusOf(r.outcome),
                    data |-> r.data]
  /\ UNCHANGED <<now, tz, catalog>>

ConcItemLists ==
  {<<BulkItem("mA", 100)>>, <<BulkItem("mA", 250)>>, <<BulkItem("mB", 100)>>,
   <<BulkItem("mA", 250), BulkItem("mB", 100)>>}

ConcBulkRequests ==
  [user : {"u1"}, mealType : {"lunch"}, items : ConcItemLists,
   logDate : {DayMs}, loggedAt : {Missing}, notes : {NoNotes}]

ConcSingleRequests ==
  {LogRequest("mA", "lunch", 100, DayMs), LogRequest("mB", "lunch", 250, DayMs)}

NextConcBulk ==
  \/ \E p \in Procs, data \in ConcBulkRequests : BulkCallLookup(p, data)
  \/ \E p \in Procs : BulkCallUpdate(p)
  \/ \E p \in Procs : BulkCallInsert(p)
  \/ \E p \in Procs, data \in ConcSingleRequests : CallLookup(p, data)
  \/ \E p \in Procs : CallWrite(p)

SpecConcBulk == Init /\ [][NextConcBulk]_vars

\* The call of a process is a bulk call; the meals it names; its lookup found
\* no entry of meal m.
IsBulkCall(c) == "map" \in DOMAIN c

CallMeals(c) ==
  IF IsBulkCall(c) THEN {c.data.items[i].meal : i \in 1..Len(c.data.items)}
  ELSE {c.data.meal}

LookupMissed(c, m) ==
  IF IsBulkCall(c) THEN m \notin DOMAIN c.map ELSE c.existing = Null

\* Two calls, one of them at least a bulk call, for the same user, meal type
\* and logDate have succeeded, both name meal m and both lookups found no
\* entry of it.
BulkRacedOn(m) ==
  /\ \A p \in Procs : calls[p].pc = "done" /\ calls[p].outcome = "ok"
  /\ \E p \in Procs : IsBulkCall(calls[p])
  /\ \A p \in Procs : m \in CallMeals(calls[p]) /\ LookupMissed(calls[p], m)
  /\ calls[1].data.user = calls[2].data.user
  /\ calls[1].data.mealType = calls[2].data.mealType
  /\ calls[1].data.logDate = calls[2].data.logDate

\* C18: two concurrent bulk calls, or a bulk and a single-item call, for the
\* same user, meal type and logDate that share a meal without an entry and
\* both take their lookup before either insert, both insert the meal: the
\* store ends with two entries for the tuple.
C18_BulkRaceInsertsTwice ==
  \A m \in {"mA", "mB"} :
    BulkRacedOn(m) =>
      Cardinality({e \in Entries(store) :
                     /\ e.meal = m
                     /\ e.user = calls[1].data.user
                     /\ e.mealType = calls[1].data.mealType
                     /\ e.logDate = calls[1].data.logDate}) = 2

\* Two bulk calls raced on mA and left two entries of (u1, mA, day 1, lunch).
C18_Witness ==
  /\ BulkRacedOn("mA")
  /\ \A p \in Procs : IsBulkCall(calls[p])
  /\ Len(store) = 2
  /\ SameTuple(store[1], store[2])
  /\ store[1].id # store[2].id

------------------------------------------------------------------------------
(* The quantities of the store *)

QtyRequests ==
  {LogRequest("mA", "lunch", q, DayMs) : q \in {0, 9, QtyMin, 250, QtyMax, 10010}}
  \cup {LogRequest("mB", "lunch", 100, DayMs)}

QtyItemLists ==
  {<<BulkItem("mA", 9)>>, <<BulkItem("mA", 250), BulkItem("mB", 9)>>,
   <<BulkItem("mB", QtyMax), BulkItem("mA", QtyMin)>>,
   <<BulkItem("mA", 10010)>>, <<BulkItem("mB", 0)>>}

QtyBulkRequests ==
  [user : {"u1"}, mealType : {"lunch"}, items : QtyItemLists,
   logDate : {DayMs}, loggedAt : {Missing}, notes : {NoNotes}]

QtyUpdateRequests ==
  {[quantity |-> q] : q \in {0, 9, QtyMin, 250, QtyMax, 10010}}
  \cup {[quantity |-> 9, notes |-> <<"a">>]}

NextQty ==
  \/ \E data \in QtyRequests : CreateFoodLog(data)
  \/ \E data \in QtyBulkRequests : CreateBulkFoodLog(data)
  \/ \E id \in 1..MaxId, data \in QtyUpdateRequests : UpdateFoodLog(id, data)
  \/ \E id \in 1..MaxId : DeleteFoodLog(id)

SpecQty == Init /\ [][NextQty]_vars

\* C19: after any sequence of single-item logs, bulk logs, updates by id and
\* deletes, successful or failed, every entry of the store has
\* 0.1 <= quantity <= 100.
C19_StoredQuantityInRange ==
  \A i \in 1..Len(store) : store[i].quantity >= 10 /\ store[i].quantity <= 10000

\* An update by id to 0.09 servings was refused by the validators on a store
\* of two entries, one of them at 2.5 servings.
C19_Witness ==
  /\ resp.op = "updateFoodLog"
  /\ resp.status = 500
  /\ Len(store) = 2
  /\ \E i \in 1..2 : store[i].quantity = 250
  /\ \A i \in 1..2 : store[i].quantity >= 10

------------------------------------------------------------------------------
(* Bulk calls at different times *)

StampItemLists ==
  {<<BulkItem("mA", 100)>>, <<BulkItem("mA", 250), BulkItem("mB", 100)>>,
   <<BulkItem("mB", 250)>>}

\* loggedAt is left to the clock or supplied.
StampBulkRequests ==
  [user : {"u1"}, mealType : {"lunch"}, items : StampItemLists,
   logDate : {DayMs, Missing}, loggedAt : {Missing, DayMs + 1}, notes : {NoNotes}]

StampRequests ==
  {LogRequest("mA", "lunch", 100, DayMs), LogRequest("mB", "lunch", 250, Missing)}

NextStamp ==
  \/ \E data \in StampBulkRequests : CreateBulkFoodLog(data)
  \/ \E data \in StampRequests : CreateFoodLog(data)
  \/ Tick

SpecStamp == Init /\ [][NextStamp]_vars

\* C20: after a successful bulk call every entry of allLogs, created or
\* updated, has the meal type and the logDate of the batch and the loggedAt
\* timestamp the response reports.
C20_BatchSharesStamps ==
  [][\A data \in StampBulkRequests :
       (resp'.op = "createBulkFoodLog" /\ CreateBulkFoodLog(data)
        /\ resp'.status = 201) =>
         \A i \in 1..Len(resp'.data.allLogs) :
           LET e == StoredLog(store', resp'.data.allLogs[i])
           IN /\ e.mealType = data.mealType
              /\ e.mealType = resp'.data.mealType
              /\ e.logDate = resp'.data.logDate
              /\ e.loggedAt = resp'.data.loggedAt]_vars

------------------------------------------------------------------------------
(* One bulk call, store call by store call, with the calls it issues logged *)

\* The call record of a bulk call in flight: its locals, the updates the store
\* has not answered yet, the updates that failed, and ops, the store calls in
\* the order they were issued and answered.
OrderCall(pc, c, pending, failed, ops) ==
  [pc |-> pc, data |-> c.data, map |-> c.map, logDate |-> c.logDate,
   loggedAt |-> c.loggedAt, updatedLogs |-> c.updatedLogs,
   pending |-> pending, failed |-> failed, ops |-> ops]

\* await FoodLog.find({user, meal: {$in}, logDate, mealType}): the one lookup.
OrderLookup(p, data) ==
  /\ calls[p].pc = "idle"
  /\ CreateBulkFoodLogAccepted(data)
  /\ \E map \in ExistingLogsMaps(
                  BulkExistingLogs(store, data,
                                   NumOr(data.logDate, StartOfDay(now)))) :
       calls' = [calls EXCEPT ![p] =
                   OrderCall("issue",
                             [data |-> data, map |-> map,
                              logDate |-> NumOr(data.logDate, StartOfDay(now)),
                              loggedAt |-> NumOr(data.loggedAt, now),
                              updatedLogs |-> <<>>],
                             {}, {}, <<<<"find", 0>>>>)]
  /\ UNCHANGED <<store, nextId, now, tz, catalog, resp>>

\* itemsToUpdate.map(async ...): every findByIdAndUpdate is issued, in item
\* order, before the call awaits Promise.all; without a matched item the
\* update phase is skipped.
OrderIssueUpdates(p) ==
  /\ calls[p].pc = "issue"
  /\ LET c == calls[p]
         toUpdate == ItemsToUpdate(c.data, c.map)
         issued == [k \in 1..Cardinality(toUpdate) |->
                      <<"update", Ascending(toUpdate)[k]>>]
     IN calls' = [calls EXCEPT ![p] =
                    OrderCall(IF toUpdate = {} THEN "insert" ELSE "await",
                              c, toUpdate, {}, c.ops \o issued)]
  /\ UNCHANGED <<store, nextId, now, tz, catalog, resp>>

\* The store answers the update of item i: it applies it, or the update fails
\* (the store fails it, the validators reject it, or the entry is gone).  The
\* store answers the updates still pending when the call has ended, too.
OrderCompleteUpdate(p, i, storeFails) ==
  /\ calls[p].pc \in {"await", "failed"}
  /\ i \in calls[p].pending
  /\ LET c == calls[p]
         fails == storeFails \/ BulkUpdateFails(store, c.data.items[i], c.data, c.map)
     IN /\ store' = IF fails THEN store
                    ELSE UpdateById(store, c.map[c.data.items[i].meal].id,
                                    BulkUpdateData(c.data.items[i], c.data))
        /\ calls' = [calls EXCEPT ![p] =
                       OrderCall(c.pc, c, c.pending \ {i},
                                 IF fails THEN c.failed \cup {i} ELSE c.failed,
                                 Append(c.ops, <<IF fails THEN "updateFailed"
                                                 ELSE "updateDone", i>>))]
  /\ UNCHANGED <<nextId, now, tz, catalog, resp>>

\* Promise.all rejects with the first failure: the catch block ends the call.
OrderReject(p) ==
  /\ calls[p].pc = "await"
  /\ calls[p].failed # {}
  /\ calls' = [calls EXCEPT ![p] =
                 OrderCall("failed", calls[p], calls[p].pending, calls[p].failed,
                           calls[p].ops)]
  /\ resp' = [op |-> "createBulkFoodLog", status |-> 500,
              data |-> [failed |-> {calls[p].data.items[i].meal :
                                      i \in calls[p].failed}]]
  /\ UNCHANGED <<store, nextId, now, tz, catalog>>

\* Mutant: the call goes on as soon as no update has failed yet.
PromiseAllNotAwaited(c) == c.failed = {}

\* Promise.all resolves: every update is answered and none failed.
PromiseAllResolved(c) == c.pending = {} /\ c.failed = {}

\* The read of the updated logs after Promise.all.
OrderReadUpdated(p) ==
  /\ calls[p].pc = "await"
  /\ PromiseAllResolved(calls[p])
  /\ LET c == calls[p]
         ids == {c.map[c.data.items[i].meal].id : i \in ItemsToUpdate(c.data, c.map)}
     IN calls' = [calls EXCEPT ![p] =
                    OrderCall("insert",
                              [c EXCEPT !.updatedLogs = FindByIds(store, ids)],
                              c.pending, c.failed, Append(c.ops, <<"findByIds", 0>>))]
  /\ UNCHANGED <<store, nextId, now, tz, catalog, resp>>

\* insertMany for the items to create, if there are any, the read of the
\* created logs, the totals and the response.
OrderInsert(p) ==
  /\ calls[p].pc = "insert"
  /\ LET c == calls[p]
         r == BulkInsert(store, nextId, c, catalog)
         inserting == ItemsToCreate(c.data, c.map) # {}
     IN /\ Len(r.store) <= MaxStore
        /\ nextId + (Len(r.store) - Len(store)) <= MaxId + 1
        /\ store' = r.store
        /\ nextId' = nextId + (Len(r.store) - Len(store))
        /\ calls' = [calls EXCEPT ![p] =
                       OrderCall(IF r.outcome = "ok" THEN "done" ELSE "failed",
                                 c, c.pending, c.failed,
                                 IF inserting
                                 THEN Append(c.ops, <<"insertMany", 0>>)
                                 ELSE c.ops)]
        /\ resp' = [op |-> "createBulkFoodLog", status |-> StatusOf(r.outcome),
                    data |-> r.data]
  /\ UNCHANGED <<now, tz, catalog>>

OrderItemLists ==
  {<<BulkItem("mA", 250)>>, <<BulkItem("mA", 300), BulkItem("mB", 300)>>,
   <<BulkItem("mB", 100), BulkItem("mA", 9)>>,
   <<BulkItem("mA", 100), BulkItem("mA", 250)>>}

OrderBulkRequests ==
  [user : {"u1"}, mealType : {"lunch"}, items : OrderItemLists,
   logDate : {DayMs}, loggedAt : {Missing}, notes : {NoNotes}]

OrderRequests ==
  {LogRequest("mA", "lunch", 100, DayMs), LogRequest("mB", "lunch", 100, DayMs)}

\* Process 1 makes one bulk call; single-item calls fill the store.
NextOrder ==
  \/ \E data \in OrderRequests : calls[1].pc = "idle" /\ CreateFoodLog(data)
  \/ \E data \in OrderBulkRequests : OrderLookup(1, data)
  \/ OrderIssueUpdates(1)
  \/ \E i \in 1..MaxItems, storeFails \in BOOLEAN : OrderCompleteUpdate(1, i, storeFails)
  \/ OrderReject(1)
  \/ OrderReadUpdated(1)
  \/ OrderInsert(1)

SpecOrder == Init /\ [][NextOrder]_vars

\* The positions in the log of a call at which a store call of one kind stands.
OpsOf(c, kind) == {k \in 1..Len(c.ops) : c.ops[k][1] = kind}

\* C21: a bulk call that passed validation issues exactly one existence
\* lookup, whatever the number of items, and the lookup is answered before
\* any write; every update is issued and answered before the batch insert is
\* issued; there is at most one batch insert; after a failed update there is
\* no batch insert.
C21_BulkStoreCallOrder ==
  \A p \in Procs :
    calls[p].pc # "idle" =>
      LET c == calls[p]
          writes == UNION {OpsOf(c, kind) :
                             kind \in {"update", "updateDone", "updateFailed",
                                       "insertMany"}}
      IN /\ OpsOf(c, "find") = {1}
         /\ \A k \in writes : k > 1
         /\ Cardinality(OpsOf(c, "insertMany")) <= 1
         /\ \A k \in OpsOf(c, "insertMany") :
              \A i \in ItemsToUpdate(c.data, c.map) :
                \E j, l \in 1..(k - 1) :
                  /\ j < l
                  /\ c.ops[j] = <<"update", i>>
                  /\ c.ops[l] = <<"updateDone", i>>
         /\ OpsOf(c, "updateFailed") # {} => OpsOf(c, "insertMany") = {}

\* A bulk call that updated one entry and then inserted another.
C21_Witness ==
  \E p \in Procs :
    /\ calls[p].pc = "done"
    /\ OpsOf(calls[p], "updateDone") # {}
    /\ OpsOf(calls[p], "insertMany") # {}

\* A bulk call that ended on a failed update while another update was pending
\* or answered, and inserted nothing.
C21_WitnessFailed ==
  \E p \in Procs :
    /\ calls[p].pc = "failed"
    /\ OpsOf(calls[p], "updateFailed") # {}
    /\ OpsOf(calls[p], "updateDone") # {}

\* The entry the update of item i of a bulk call is aimed at.
UpdateTarget(c, i) == c.map[c.data.items[i].meal].id

\* C22: within one bulk call, whatever the item list (repeated meal IDs
\* included), the updates dispatched together are aimed at pairwise distinct
\* entries, and the inserted entries have pairwise distinct (user, meal,
\* logDate, mealType) tuples that also differ from every updated entry's.
C22_BulkWritesDistinct ==
  \A p \in Procs :
    calls[p].pc # "idle" =>
      LET c == calls[p]
      IN /\ \A j, k \in OpsOf(c, "update") :
              j # k => UpdateTarget(c, c.ops[j][2]) # UpdateTarget(c, c.ops[k][2])
         /\ (c.pc = "done" /\ resp.op = "createBulkFoodLog" /\ resp.status = 201) =>
              /\ UniqueTuples(resp.data.createdLogs)
              /\ \A i \in 1..Len(resp.data.createdLogs),
                    j \in 1..Len(resp.data.updatedLogs) :
                   ~SameTuple(resp.data.createdLogs[i], resp.data.updatedLogs[j])

------------------------------------------------------------------------------
(* Bulk calls with item-level and batch-level notes *)

ItemNotes == {NoNotes, <<" ">>, <<" ", "a">>}

BatchNotes == {NoNotes, <<" ">>, <<"c", " ">>}

NotedItemLists ==
  {<<[BulkItem(meal, 250) EXCEPT !.notes = n]>> : meal \in {"mA", "mB"}, n \in ItemNotes}
  \cup {<<BulkItem("mA", 300), [BulkItem("mB", 100) EXCEPT !.notes = <<" ", "a">>]>>}

NotedBulkRequests ==
  [user : {"u1"}, mealType : {"lunch"}, items : NotedItemLists,
   logDate : {DayMs}, loggedAt : {Missing}, notes : BatchNotes]

NotedRequests ==
  {LogRequest("mA", "lunch", 100, DayMs),
   [LogRequest("mA", "lunch", 100, DayMs) EXCEPT !.notes = <<"o">>]}

NextNoted ==
  \/ \E data \in NotedRequests : CreateFoodLog(data)
  \/ \E data \in NotedBulkRequests : CreateBulkFoodLog(data)

SpecNoted == Init /\ [][NextNoted]_vars

\* Notes that are supplied and not only white space.
NonBlank(n) == n # NoNotes /\ Trim(n) # <<>>

\* The entries of store s an item of a bulk request is about.
NotedEntries(s, data, item) ==
  {e \in Entries(s) : /\ e.user = data.user
                      /\ e.meal = item.meal
                      /\ e.logDate = data.logDate
                      /\ e.mealType = data.mealType}

\* The notes of the entry of an item after a bulk call, with created the
\* notes of an item the call created when neither level has non-blank notes.
NotesAfter(s, data, item, created) ==
  IF NonBlank(item.notes) THEN Trim(item.notes)
  ELSE IF NonBlank(data.notes) THEN Trim(data.notes)
  ELSE IF NotedEntries(s, data, item) = {} THEN created
  ELSE (CHOOSE e \in NotedEntries(s, data, item) : TRUE).notes

------------------------------------------------------------------------------
(* Single-item merges with notes and a supplied loggedAt *)

\* The first two fill the store; the others repeat a tuple with another
\* quantity, a supplied loggedAt and absent, empty or padded notes.
MergeRequests ==
  {LogRequest("mA", "lunch", 100, DayMs),
   [LogRequest("mA", "lunch", 100, DayMs) EXCEPT !.notes = <<"o">>],
   LogRequest("mB", "lunch", 100, DayMs)}
  \cup {[LogRequest("mA", "lunch", 250, DayMs) EXCEPT !.notes = n, !.loggedAt = 1] :
          n \in {NoNotes, <<>>, <<" ", "a">>}}

NextMerge ==
  \/ \E data \in MergeRequests : CreateFoodLog(data)
  \/ \E id \in 1..MaxId : DeleteFoodLog(id)
  \/ Tick

SpecMerge == Init /\ [][NextMerge]_vars

\* Entry e with the quantity, and the notes if supplied, of the request.
Merged(e, data) ==
  [e EXCEPT !.quantity = data.quantity,
            !.notes = IF data.notes # NoNotes THEN Trim(data.notes) ELSE @]

\* C24: a single-item call that merges changes the quantity of the entry of
\* its tuple, and its notes if and only if notes were supplied; the entry's
\* id, user, meal, mealType, logDate and loggedAt stay as they were (a supplied
\* loggedAt is ignored), every other entry is unchanged and so is the number
\* of entries.
C24_MergeFrame ==
  [][\A data \in MergeRequests :
       (resp'.op = "createFoodLog" /\ resp'.merged /\ resp'.status = 201
        /\ CreateFoodLog(data)) =>
         /\ Len(store') = Len(store)
         /\ \E k \in 1..Len(store) :
              /\ SameTuple(store[k], data)
              /\ store'[k] = Merged(store[k], data)
              /\ \A j \in 1..Len(store) : j # k => store'[j] = store[j]]_vars

\* A merge with a supplied loggedAt and notes on an entry that keeps its own
\* loggedAt, beside an entry of another meal.
C24_Witness ==
  /\ resp.op = "createFoodLog"
  /\ resp.merged
  /\ resp.status = 201
  /\ Len(store) = 2
  /\ \E e \in Entries(store) :
       e.quantity = 250 /\ e.notes = <<"a">> /\ e.loggedAt # 1

------------------------------------------------------------------------------
(* Single-item calls over several users, meals, days and meal types *)

\* A request, the same tuple with another quantity, and the requests that
\* differ from it in the user, the meal, the logDate or the meal type.
KeyRequests ==
  {LogRequest("mA", "lunch", 100, DayMs), LogRequest("mA", "lunch", 250, DayMs),
   [LogRequest("mA", "lunch", 250, DayMs) EXCEPT !.user = "u2"],
   LogRequest("mB", "lunch", 250, DayMs), LogRequest("mA", "lunch", 250, Missing),
   LogRequest("mA", "lunch", 250, 2 * DayMs),
   LogRequest("mA", "dinner", 250, DayMs), LogRequest("mA", Undefined, 250, DayMs)}

NextKey ==
  \/ \E data \in KeyRequests : CreateFoodLog(data)
  \/ \E id \in 1..MaxId : DeleteFoodLog(id)

SpecKey == Init /\ [][NextKey]_vars

\* The tuple a single-item request is about.
KeyOf(data) ==
  [user |-> data.user, meal |-> data.meal, logDate |-> ResolveLogDate(data),
   mealType |-> data.mealType]

\* C25: a single-item call never modifies an entry that differs from its
\* (user, meal, logDate, mealType) in one of the four; a call for a user, meal
\* and logDate that are stored under another meal type only inserts a new
\* entry for its own tuple.
C25_ExactMergeKey ==
  [][\A data \in KeyRequests :
       (resp'.op = "createFoodLog" /\ CreateFoodLog(data)) =>
         /\ \A k \in 1..Len(store) :
              ~SameTuple(store[k], KeyOf(data)) => store'[k] = store[k]
         /\ (/\ resp'.status = 201
             /\ \A e \in Entries(store) : ~SameTuple(e, KeyOf(data))) =>
              /\ Len(store') = Len(store) + 1
              /\ SameTuple(store'[Len(store')], KeyOf(data))
              /\ store'[Len(store')].quantity = data.quantity]_vars

\* The same user, meal and logDate stored under two meal types with different
\* quantities, the second call having inserted.
C25_Witness ==
  /\ resp.op = "createFoodLog"
  /\ resp.status = 201
  /\ ~resp.merged
  /\ Len(store) = 2
  /\ store[1].user = store[2].user
  /\ store[1].meal = store[2].meal
  /\ store[1].logDate = store[2].logDate
  /\ store[1].mealType # store[2].mealType
  /\ store[1].quantity # store[2].quantity

------------------------------------------------------------------------------
(* Calls with a defaulted logDate and with one that is not a start of day *)

\* Two ticks after midnight in either time zone of TzOffsets.
MidDay == DayMs + 2

MidDayRequests ==
  {LogRequest("mA", "lunch", 100, Missing), LogRequest("mA", "lunch", 250, MidDay)}

MidDayBulkRequests ==
  [user : {"u1"}, mealType : {"lunch"},
   items : {<<BulkItem("mB", 100)>>, <<BulkItem("mA", 250), BulkItem("mB", 250)>>},
   logDate : {Missing, MidDay}, loggedAt : {Missing}, notes : {NoNotes}]

MidDayUpdateRequests == {[logDate |-> MidDay], [quantity |-> 300]}

NextMidDay ==
  \/ \E data \in MidDayRequests : CreateFoodLog(data)
  \/ \E data \in MidDayBulkRequests : CreateBulkFoodLog(data)
  \/ \E id \in 1..MaxId, data \in MidDayUpdateRequests : UpdateFoodLog(id, data)
  \/ \E id \in 1..MaxId : DeleteFoodLog(id)
  \/ Tick

SpecMidDay == Init /\ [][NextMidDay]_vars

\* C26: the logDate of every stored entry is a start-of-day timestamp, after
\* single-item and bulk calls with a defaulted logDate or with a supplied one
\* that is not at a start of day, and after updates by id with a logDate.
C26_LogDateAtStartOfDay ==
  \A e \in Entries(store) : StartOfDay(e.logDate) = e.logDate

------------------------------------------------------------------------------
(* The totals of a summary against its buckets *)

\* The sum of one field over the four buckets of a summary.
BucketSum(sm, field) ==
  sm.mealBreakdown["breakfast"][field] + sm.mealBreakdown["lunch"][field]
  + sm.mealBreakdown["dinner"][field] + sm.mealBreakdown["snack"][field]

TotalsMatchBuckets(sm) ==
  /\ sm.totalCalories = BucketSum(sm, "calories")
  /\ sm.totalProtein = BucketSum(sm, "protein")
  /\ sm.totalFat = BucketSum(sm, "fat")
  /\ sm.totalCarbs = BucketSum(sm, "carbs")
  /\ sm.totalItems = BucketSum(sm, "items")

------------------------------------------------------------------------------
(* Single-item calls with deletes by id between their lookup and their write *)

GoneRequests ==
  {LogRequest("mA", "lunch", 100, DayMs), LogRequest("mA", "lunch", 250, DayMs),
   LogRequest("mB", "lunch", 100, DayMs)}

NextGone ==
  \/ \E p \in Procs, data \in GoneRequests : CallLookup(p, data)
  \/ \E p \in Procs : CallWrite(p)
  \/ \E id \in 1..MaxId : DeleteFoodLog(id)

SpecGone == Init /\ [][NextGone]_vars

\* The entry the lookup of call p matched has been deleted since.
MatchDeleted(p) ==
  /\ calls[p].pc = "write"
  /\ calls[p].existing # Null
  /\ ~HasId(store, calls[p].existing.id)

\* C28: a single-item call whose matched entry is deleted before its
\* update is applied ends with an error and inserts nothing, so the store is
\* left without an entry for the tuple the delete emptied; a call that
\* succeeds has written its quantity to exactly one entry of its tuple, the
\* matched one or the new one, and to nothing else.
C28_DeletedMatchFailsCall ==
  [][\A p \in Procs :
       (calls[p].pc = "write" /\ calls'[p].pc = "done" /\ CallWrite(p)) =>
         LET c == calls[p]
             key == [c.data EXCEPT !.logDate = c.logDate]
         IN /\ MatchDeleted(p) =>
                 /\ calls'[p].outcome = "Failed to update existing food log"
                 /\ resp'.status = 500
                 /\ store' = store
                 /\ TupleEntries(store, key) = {} => TupleEntries(store', key) = {}
            /\ calls'[p].outcome = "ok" =>
                 \E k \in 1..Len(store') :
                   /\ SameTuple(store'[k], key)
                   /\ store'[k].quantity = c.data.quantity
                   /\ IF c.existing # Null
                      THEN store'[k].id = c.existing.id /\ Len(store') = Len(store)
                      ELSE k = Len(store') /\ Len(store') = Len(store) + 1
                   /\ \A j \in 1..Len(store) : j # k => store'[j] = store[j]]_vars

\* A call whose matched entry was deleted has ended with the error, and the
\* store has no entry for its tuple.
C28_Witness ==
  \E p \in Procs :
    /\ calls[p].pc = "done"
    /\ calls[p].existing # Null
    /\ calls[p].outcome = "Failed to update existing food log"
    /\ TupleEntries(store, calls[p].data) = {}

------------------------------------------------------------------------------
(* Two concurrent single-item calls on a tuple that has an entry *)

PairSeeds ==
  {LogRequest("mA", "lunch", 100, DayMs), LogRequest("mB", "lunch", 100, DayMs)}

PairRequests ==
  {LogRequest("mA", "lunch", 250, DayMs), LogRequest("mA", "lunch", 300, DayMs),
   LogRequest("mB", "lunch", 250, DayMs), LogRequest("mA", "lunch", 9, DayMs)}

\* The store is filled before the two calls start.
NextPair ==
  \/ \E data \in PairSeeds : (\A p \in Procs : calls[p].pc = "idle") /\ CreateFoodLog(data)
  \/ \E p \in Procs, data \in PairRequests : CallLookup(p, data)
  \/ \E p \in Procs : CallWrite(p)

SpecPair == Init /\ [][NextPair]_vars

\* Both calls are past their lookup, both lookups matched an entry, and the
\* two calls are for the same tuple.
BothMatchedSameTuple ==
  /\ \A p \in Procs : calls[p].pc \in {"write", "done"} /\ calls[p].existing # Null
  /\ SameTuple(calls[1].data, calls[2].data)

\* C29: when two concurrent single-item calls are on a tuple that has one
\* entry, after each of their updates, in every interleaving, the store has
\* exactly one entry for the tuple, with the id it had, and its quantity is
\* the quantity of the call whose update was applied last; an update the
\* validators reject is not applied.
C29_ConcurrentMergesLastWins ==
  [][\A p \in Procs :
       (BothMatchedSameTuple /\ calls[p].pc = "write" /\ calls'[p].pc = "done"
        /\ CallWrite(p)) =>
         /\ Len(store') = Len(store)
         /\ Cardinality(TupleEntries(store', calls[p].data)) = 1
         /\ \A e \in TupleEntries(store', calls[p].data) :
              /\ e.id = calls[1].existing.id
              /\ e.id = calls[2].existing.id
              /\ calls'[p].outcome = "ok" => e.quantity = calls[p].data.quantity
         /\ calls'[p].outcome # "ok" => store' = store]_vars

\* Both lookups saw the entry as it was stored, then both updates were
\* applied, with different quantities.
C29_Witness ==
  /\ \A p \in Procs : calls[p].pc = "done" /\ calls[p].outcome = "ok"
  /\ \A p \in Procs : calls[p].existing # Null /\ calls[p].existing.quantity = 100
  /\ SameTuple(calls[1].data, calls[2].data)
  /\ calls[1].data.quantity # calls[2].data.quantity
  /\ \E e \in TupleEntries(store, calls[1].data) : e.quantity = 300

------------------------------------------------------------------------------
(* The window of the range summary and of the two trends *)

\* 15 March 1972, one tick after midnight UTC.
WindowDay == MakeDay(1972, 2, 15)

WindowNow == WindowDay * DayMs + 1

\* Entries of today, of the last tick of today, of the days 14 and 15 days
\* ago, of 15 February, of tomorrow, and of another user.
WindowLogs ==
  {<<"u1", "mA", "lunch", 100, WindowDay * DayMs>>,
   <<"u1", "mB", "dinner", 100, (WindowDay + 1) * DayMs - 1>>,
   <<"u1", "mA", "snack", 200, (WindowDay - 14) * DayMs>>,
   <<"u1", "mB", "lunch", 100, (WindowDay - 15) * DayMs>>,
   <<"u1", "mA", "breakfast", 100, MakeDay(1972, 1, 15) * DayMs>>,
   <<"u1", "mB", "lunch", 200, (WindowDay + 1) * DayMs + 1>>,
   <<"u2", "mA", "lunch", 100, WindowDay * DayMs>>}

WindowStores ==
  UNION {{[i \in 1..k |-> SampleLog(i, f[i])] : f \in [1..k -> WindowLogs]} :
           k \in 0..MaxStore}

WindowRanges ==
  {<<(WindowDay - 14) * DayMs + 1, WindowDay * DayMs + 1>>,
   <<WindowDay * DayMs + 2, WindowDay * DayMs + 2>>}

WindowWeeks == {1, 2}

WindowMonths == {1, 2}

InitWindow ==
  /\ store \in WindowStores
  /\ nextId = Len(store) + 1
  /\ now = WindowNow
  /\ tz \in TzOffsets
  /\ catalog = Catalog
  /\ calls = Idle
  /\ resp = NoResp

NextWindow ==
  \/ \E u \in SummaryUsers, r \in WindowRanges : RangeSummary(u, r[1], r[2])
  \/ \E u \in SummaryUsers, weeks \in WindowWeeks : GetWeeklyNutritionTrend(u, weeks)
  \/ \E u \in SummaryUsers, months \in WindowMonths : GetMonthlyNutritionTrend(u, months)

SpecWindow == InitWindow /\ [][NextWindow]_vars

RECURSIVE SumOfItems(_)
SumOfItems(summaries) ==
  IF summaries = <<>> THEN 0
  ELSE Head(summaries).totalItems + SumOfItems(Tail(summaries))

\* The summaries res account for exactly the entries W, each in one summary.
AccountsFor(res, W) ==
  /\ SumOfItems(res) = Cardinality(W)
  /\ \A i, j \in 1..Len(res) : res[i].date = res[j].date => i = j
  /\ \A i \in 1..Len(res) :
       /\ res[i].totalItems = Cardinality({e \in W : IsoDate(e.logDate) = res[i].date})
       /\ res[i].totalItems # 0
       /\ res[i].totalCalories =
            Rollup({e \in W : IsoDate(e.logDate) = res[i].date}, "calories")

\* C30: rangeSummary(user, startDate, endDate) accounts for exactly the
\* user's entries from the start of the day of startDate to the end of the day
\* of endDate, each in exactly one summary, so that the totalItems add up to
\* their number; no other entry contributes and no summary has totalItems 0;
\* weeklyTrend and monthlyTrend do the same from the day of their start to the
\* day of now.
C30_WidenedWindow ==
  [][/\ \A u \in SummaryUsers, r \in WindowRanges :
          (resp'.op = "rangeSummary" /\ RangeSummary(u, r[1], r[2])) =>
            /\ resp'.status = 200
            /\ AccountsFor(resp'.data, RangeLogs(store, u, r[1], r[2]))
     /\ \A u \in SummaryUsers, weeks \in WindowWeeks :
          (resp'.op = "weeklyTrend" /\ GetWeeklyNutritionTrend(u, weeks)) =>
            /\ resp'.status = 200
            /\ AccountsFor(resp'.data,
                           RangeLogs(store, u, WeeklyTrendStart(now, weeks), now))
     /\ \A u \in SummaryUsers, months \in WindowMonths :
          (resp'.op = "monthlyTrend" /\ GetMonthlyNutritionTrend(u, months)) =>
            /\ resp'.status = 200
            /\ AccountsFor(resp'.data,
                           RangeLogs(store, u, MonthlyTrendStart(now, months), now))]_vars

\* A weekly trend that counts the entry of the first day of its window, which
\* is earlier than the start timestamp of even the longer window, beside an
\* entry of today.
C30_Witness ==
  /\ resp.op = "weeklyTrend"
  /\ resp.status = 200
  /\ tz = 0
  /\ Len(resp.data) = 2
  /\ \E e \in Entries(store) :
       /\ e.logDate < WeeklyTrendStart(now, 2)
       /\ resp.data[1].date = IsoDate(e.logDate)

====
